---- MODULE Spec2Model ----
(***************************************************************************)
(* FitTracker: the program sequencer (getNextProgramWorkout), the program  *)
(* workout tracker (incrementProgramWorkoutCount, addProgram) and the      *)
(* session completion state machine of SessionLogger.                      *)
(***************************************************************************)
EXTENDS Integers, Sequences, FiniteSets, TLC

\* ------------------------------------------------------------------ bounds
MaxTarget == 2
MaxCount == 2
MaxPrograms == 4
MaxSets == 2

\* ---------------------------------------------------------------- universe
WorkoutIds == {"A", "B", "C"}
WorkoutOrder == <<"A", "B", "C">>
NoId == "none"
SeqOrders == 0..(Cardinality(WorkoutIds) - 1)
Null == [null |-> TRUE]
NoOp == [op |-> "init", pid |-> NoId, id |-> NoId, n |-> 0]

VARIABLES
  programs,               \* the programs table: program id -> row
  activeProgram,          \* HomeView state: the loaded active program or Null
  programSessionWorkout,  \* HomeView state: workout of the open program session
  selectedWorkouts,       \* ProgramManager form state
  mode,                   \* ProgramManager mode
  adding,                 \* per device: position inside addProgram
  exercises,              \* SessionLogger state
  completedExercises,     \* SessionLogger state
  expandedExercises,      \* SessionLogger state
  rotationStart,          \* history: the program a recorded rotation began with, or Null
  selections,             \* history: the workouts handleStartProgramSession chose
  lastOp,                 \* history: the last operation and its arguments
  workoutExercises,       \* WorkoutEditor state: the exercise list of the form
  selectedForSuperset,    \* WorkoutEditor state
  supersetMode,           \* WorkoutEditor state
  clock,                  \* Date.now() as the next superset id will read it
  groupedExercises,       \* WorkoutEditor render: getGroupedExercises()
  sessions,               \* the sessions collection as loadSessions returns it
  exerciseHistory,        \* the last result of getLastExerciseHistory
  editStart,              \* history: completedCount per workout when the edit began
  removedInEdit,          \* history: workouts removed since the edit began
  incrementing            \* per device: position inside incrementProgramWorkoutCount

editorVars == <<workoutExercises, selectedForSuperset, supersetMode, clock,
                groupedExercises>>
historyVars == <<sessions, exerciseHistory>>
editRecordVars == <<editStart, removedInEdit>>
callVars == <<incrementing>>

vars == <<programs, activeProgram, programSessionWorkout, selectedWorkouts, mode,
          adding, exercises, completedExercises, expandedExercises,
          rotationStart, selections, lastOp, editorVars, historyVars, editRecordVars,
          callVars>>

\* ------------------------------------------------------- ProgramSequencer

\* [...program.workouts].sort((a, b) => a.sequenceOrder - b.sequenceOrder):
\* a stable sort.  The entry at array index i goes to the position after the
\* entries that compare smaller and the equal entries that precede it.
sortedPosition(ws, i) ==
  1 + Cardinality({j \in 1..Len(ws) :
                     \/ ws[j].sequenceOrder < ws[i].sequenceOrder
                     \/ ws[j].sequenceOrder = ws[i].sequenceOrder /\ j < i})

sortBySequenceOrder(ws) ==
  [k \in 1..Len(ws) |-> ws[CHOOSE i \in 1..Len(ws) : sortedPosition(ws, i) = k]]

\* sorted.findIndex(w => w.workoutId === id), 0-based, -1 when absent
findIndex(sorted, id) ==
  IF \E i \in 1..Len(sorted) : sorted[i].workoutId = id
  THEN (CHOOSE i \in 1..Len(sorted) :
          /\ sorted[i].workoutId = id
          /\ \A j \in 1..(i - 1) : sorted[j].workoutId # id) - 1
  ELSE -1

\* faulty variant: the scan starts at the last-completed entry instead of after it
startIndexAtLast(sorted, last) ==
  IF last # NoId /\ findIndex(sorted, last) # -1
  THEN findIndex(sorted, last) % Len(sorted)
  ELSE 0

startIndexOf(sorted, last) ==
  IF last # NoId
  THEN LET lastIdx == findIndex(sorted, last)
       IN IF lastIdx # -1 THEN (lastIdx + 1) % Len(sorted) ELSE 0
  ELSE 0

\* faulty variant: the entry at the start position is returned without looking at its target
RECURSIVE scanFromFirstOnly(_, _, _)
scanFromFirstOnly(sorted, startIndex, i) ==
  IF i >= Len(sorted) THEN Null
  ELSE sorted[((startIndex + i) % Len(sorted)) + 1]

\* for (let i = 0; i < sorted.length; i++) { idx = (startIndex + i) % length; ... }
RECURSIVE scanFrom(_, _, _)
scanFrom(sorted, startIndex, i) ==
  IF i >= Len(sorted) THEN Null
  ELSE LET idx == (startIndex + i) % Len(sorted)
       IN IF sorted[idx + 1].completedCount < sorted[idx + 1].targetCount
          THEN sorted[idx + 1]
          ELSE scanFrom(sorted, startIndex, i + 1)

\* faulty variant: one entry at its target ends the program
someCompleted(sorted) ==
  \E i \in 1..Len(sorted) : sorted[i].completedCount >= sorted[i].targetCount

\* sorted.every(w => w.completedCount >= w.targetCount)
allCompleted(sorted) ==
  \A i \in 1..Len(sorted) : sorted[i].completedCount >= sorted[i].targetCount

\* faulty variant: a last-completed reference that is not found ends the lookup
getNextProgramWorkoutStrict(program) ==
  IF Len(program.workouts) = 0 THEN Null
  ELSE LET sorted == sortBySequenceOrder(program.workouts)
       IN IF allCompleted(sorted) THEN Null
          ELSE IF /\ program.lastCompletedWorkoutId # NoId
                  /\ findIndex(sorted, program.lastCompletedWorkoutId) = -1
               THEN Null
               ELSE scanFrom(sorted, startIndexOf(sorted, program.lastCompletedWorkoutId), 0)

getNextProgramWorkout(program) ==
  IF Len(program.workouts) = 0 THEN Null
  ELSE LET sorted == sortBySequenceOrder(program.workouts)
       IN IF allCompleted(sorted) THEN Null
          ELSE scanFrom(sorted, startIndexOf(sorted, program.lastCompletedWorkoutId), 0)

\* --------------------------------------------------- ProgramWorkoutTracker

\* loadActiveProgram: select * where active = true limit 1; any one active row
activeIds(table) == {p \in DOMAIN table : table[p].active}

loadedProgram(table, p) ==
  [id |-> p, workouts |-> table[p].workouts,
   lastCompletedWorkoutId |-> table[p].lastCompletedWorkoutId]

loadActiveProgram(table) ==
  IF activeIds(table) = {} THEN {Null}
  ELSE {loadedProgram(table, p) : p \in activeIds(table)}

\* faulty variant: the workoutId test of the map is dropped
incrementedAllEntries(ws, workoutId) ==
  [i \in 1..Len(ws) |-> [ws[i] EXCEPT !.completedCount = @ + 1]]

\* data.workouts.map(w => w.workoutId === workoutId ? {...w, completedCount + 1} : w)
incrementedWorkouts(ws, workoutId) ==
  [i \in 1..Len(ws) |->
     IF ws[i].workoutId = workoutId
     THEN [ws[i] EXCEPT !.completedCount = @ + 1]
     ELSE ws[i]]

\* faulty variant: the update does not write last_completed_workout_id
incrementWithoutLast(table, programId, workoutId) ==
  IF programId \notin DOMAIN table THEN table
  ELSE [table EXCEPT ![programId].workouts = incrementedWorkouts(@, workoutId)]

\* incrementProgramWorkoutCount(programId, workoutId): the table after the call
incrementProgramWorkoutCount(table, programId, workoutId) ==
  IF programId \notin DOMAIN table THEN table
  ELSE [table EXCEPT ![programId] =
          [@ EXCEPT !.workouts = incrementedWorkouts(@, workoutId),
                    !.lastCompletedWorkoutId = workoutId]]

\* ------------------------------------------------------------ initial data
workoutEntry(w, seq, target, done) ==
  [workoutId |-> w, sequenceOrder |-> seq, targetCount |-> target, completedCount |-> done]

\* the entries of the workouts in S, in the array order A, B, C
RECURSIVE workoutListFrom(_, _, _, _, _)
workoutListFrom(i, S, seq, target, done) ==
  IF i > Len(WorkoutOrder) THEN <<>>
  ELSE LET w == WorkoutOrder[i]
       IN IF w \in S
          THEN <<workoutEntry(w, seq[w], target[w], done[w])>>
                 \o workoutListFrom(i + 1, S, seq, target, done)
          ELSE workoutListFrom(i + 1, S, seq, target, done)

programRow(active, archived, ws, last) ==
  [active |-> active, archivedAt |-> archived, workouts |-> ws,
   lastCompletedWorkoutId |-> last]

archivedSample ==
  programRow(FALSE, TRUE, <<workoutEntry("A", 0, 1, 0), workoutEntry("B", 1, 1, 1)>>, "A")

Devices == {"D1", "D2"}

InitManager ==
  /\ selectedWorkouts = <<>>
  /\ mode = "closed"

idleDevice == [pc |-> "idle", id |-> NoId, deactivated |-> FALSE, old |-> {}]

InitDevices ==
  adding = [d \in Devices |-> idleDevice]

\* no workout form is open
InitEditorClosed ==
  /\ workoutExercises = <<>>
  /\ selectedForSuperset = {}
  /\ supersetMode = FALSE
  /\ clock = 0
  /\ groupedExercises = <<>>

InitHistoryEmpty ==
  /\ sessions = <<>>
  /\ exerciseHistory = Null

InitNoEditRecord ==
  /\ editStart = Null
  /\ removedInEdit = {}

idleCall == [pc |-> "idle", pid |-> NoId, id |-> NoId, data |-> <<>>]

\* no incrementProgramWorkoutCount call is in flight
InitNoCall ==
  incrementing = [d \in Devices |-> idleCall]

InitSessionEmpty ==
  /\ exercises = <<>>
  /\ completedExercises = {}
  /\ expandedExercises = {}

\* A stored active program P1 with well-formed entries (distinct workout ids,
\* distinct sequenceOrder, targetCount >= 1, completedCount >= 0), whatever
\* its array order and its last-completed reference, and an archived program
\* P0.  HomeView has loaded P1.
InitProgram ==
  \E S \in SUBSET WorkoutIds :
    \E seq \in [S -> SeqOrders], target \in [S -> 1..MaxTarget],
       done \in [S -> 0..MaxCount], last \in WorkoutIds \cup {NoId} :
      /\ \A a, b \in S : a # b => seq[a] # seq[b]
      /\ programs = ("P0" :> archivedSample) @@
                    ("P1" :> programRow(TRUE, FALSE,
                                        workoutListFrom(1, S, seq, target, done), last))
      /\ activeProgram = loadedProgram(programs, "P1")
      /\ programSessionWorkout = NoId
      /\ selections = <<>>
      /\ lastOp = NoOp

\* P1 as ProgramManager stores it and the tracker updates it: the array in
\* sequence order, sequenceOrder = position, and the last-completed reference
\* unset or naming one of its workouts.
InitProgramStored ==
  \E S \in SUBSET WorkoutIds :
    \E seq \in [S -> 0..(Cardinality(S) - 1)], target \in [S -> 1..MaxTarget],
       done \in [S -> 0..MaxCount], last \in S \cup {NoId} :
      /\ \A a, b \in S : a # b => seq[a] # seq[b]
      /\ programs = ("P0" :> archivedSample) @@
                    ("P1" :> programRow(TRUE, FALSE,
                               sortBySequenceOrder(workoutListFrom(1, S, seq, target, done)),
                               last))
      /\ activeProgram = loadedProgram(programs, "P1")
      /\ programSessionWorkout = NoId
      /\ selections = <<>>
      /\ lastOp = NoOp

Init ==
  /\ InitProgram /\ InitManager /\ InitDevices /\ InitSessionEmpty
  /\ InitEditorClosed /\ InitHistoryEmpty /\ InitNoEditRecord /\ InitNoCall
  /\ rotationStart = Null

InitRotation ==
  /\ InitProgram /\ InitManager /\ InitDevices /\ InitSessionEmpty
  /\ InitEditorClosed /\ InitHistoryEmpty /\ InitNoEditRecord /\ InitNoCall
  /\ rotationStart = activeProgram

InitEdit ==
  /\ InitProgramStored /\ InitManager /\ InitDevices /\ InitSessionEmpty
  /\ InitEditorClosed /\ InitHistoryEmpty /\ InitNoEditRecord /\ InitNoCall
  /\ rotationStart = Null

\* ----------------------------------------------------------------- HomeView

belowTarget(ws) ==
  {ws[i].workoutId : i \in {j \in 1..Len(ws) : ws[j].completedCount < ws[j].targetCount}}

\* handleStartProgramSession: take the next workout of the loaded program
handleStartProgramSession ==
  /\ mode = "closed"
  /\ programSessionWorkout = NoId
  /\ activeProgram # Null
  /\ getNextProgramWorkout(activeProgram) # Null
  /\ programSessionWorkout' = getNextProgramWorkout(activeProgram).workoutId
  /\ selections' = IF rotationStart # Null
                   THEN Append(selections,
                               [workoutId |-> programSessionWorkout',
                                below |-> belowTarget(activeProgram.workouts)])
                   ELSE selections
  /\ lastOp' = [op |-> "start", pid |-> activeProgram.id, id |-> programSessionWorkout', n |-> 0]
  /\ UNCHANGED <<callVars, editorVars, historyVars, editRecordVars, programs, activeProgram,
                 selectedWorkouts, mode, adding, exercises, completedExercises,
                 expandedExercises, rotationStart>>

\* SessionLogger.handleSave with programId (started by "Start Next Workout"):
\* saveSession(true) increments, then onSave closes the logger and reloads.
handleSaveProgramSession ==
  /\ programSessionWorkout # NoId
  /\ activeProgram # Null
  /\ programs' = incrementProgramWorkoutCount(programs, activeProgram.id, programSessionWorkout)
  /\ activeProgram' \in loadActiveProgram(programs')
  /\ programSessionWorkout' = NoId
  /\ lastOp' = [op |-> "increment", pid |-> activeProgram.id, id |-> programSessionWorkout, n |-> 0]
  /\ UNCHANGED <<callVars, editorVars, historyVars, editRecordVars, selectedWorkouts, mode,
                 adding, exercises, completedExercises, expandedExercises,
                 rotationStart, selections>>

\* A session started from the workout library whose workout is in the active
\* program, saved and answered "Yes, count it": saveSession(true).
handleSaveLibrarySessionCounted(workoutId) ==
  /\ mode = "closed"
  /\ programSessionWorkout = NoId
  /\ activeProgram # Null
  /\ \E i \in 1..Len(activeProgram.workouts) :
       /\ activeProgram.workouts[i].workoutId = workoutId
       /\ activeProgram.workouts[i].completedCount < MaxCount
  /\ programs' = incrementProgramWorkoutCount(programs, activeProgram.id, workoutId)
  /\ activeProgram' \in loadActiveProgram(programs')
  /\ lastOp' = [op |-> "increment", pid |-> activeProgram.id, id |-> workoutId, n |-> 1]
  /\ UNCHANGED <<callVars, editorVars, historyVars, editRecordVars, programSessionWorkout,
                 selectedWorkouts, mode, adding, exercises, completedExercises,
                 expandedExercises, rotationStart, selections>>

\* ----------------------------------------------------------- ProgramManager

\* faulty variant: the renumbering starts the counters again
reindexedReset(ws) ==
  [i \in 1..Len(ws) |-> [ws[i] EXCEPT !.sequenceOrder = i - 1, !.completedCount = 0]]

\* faulty variant: the list keeps the sequence orders it had
notReindexed(ws) == ws

\* filtered.map((w, i) => ({...w, sequenceOrder: i}))
reindexed(ws) == [i \in 1..Len(ws) |-> [ws[i] EXCEPT !.sequenceOrder = i - 1]]

keepOthers(ws, workoutId) ==
  LET keep(w) == w.workoutId # workoutId IN SelectSeq(ws, keep)

\* completedCount per workout id of a workout list
countsOf(ws) ==
  [w \in {ws[i].workoutId : i \in 1..Len(ws)} |->
     ws[CHOOSE i \in 1..Len(ws) : ws[i].workoutId = w].completedCount]

\* the Edit button: setMode('edit'), setSelectedWorkouts(sorted workouts)
editProgram ==
  /\ mode = "closed"
  /\ programSessionWorkout = NoId
  /\ activeProgram # Null
  /\ mode' = "edit"
  /\ selectedWorkouts' = sortBySequenceOrder(activeProgram.workouts)
  /\ lastOp' = [op |-> "edit", pid |-> activeProgram.id, id |-> NoId, n |-> 0]
  /\ editStart' = countsOf(activeProgram.workouts)
  /\ removedInEdit' = {}
  /\ UNCHANGED <<callVars, editorVars, historyVars, programs, activeProgram, programSessionWorkout,
                 adding, exercises, completedExercises, expandedExercises, rotationStart,
                 selections>>

handleRemoveWorkout(workoutId) ==
  /\ mode = "edit"
  /\ \E i \in 1..Len(selectedWorkouts) : selectedWorkouts[i].workoutId = workoutId
  /\ selectedWorkouts' = reindexed(keepOthers(selectedWorkouts, workoutId))
  /\ lastOp' = [op |-> "removeWorkout", pid |-> NoId, id |-> workoutId, n |-> 0]
  /\ removedInEdit' = removedInEdit \cup {workoutId}
  /\ UNCHANGED <<callVars, editorVars, historyVars, editStart, programs, activeProgram,
                 programSessionWorkout, mode, adding, exercises, completedExercises,
                 expandedExercises, rotationStart, selections>>

\* updateProgram(programId, {name, workouts}): only the fields given are written
updateProgramWorkouts(table, programId, ws) ==
  IF programId \in DOMAIN table
  THEN [table EXCEPT ![programId].workouts = ws]
  ELSE table

\* handleSave in edit mode, then onUpdate (reload) and onClose
handleSaveEdit ==
  /\ mode = "edit"
  /\ activeProgram # Null
  /\ Len(selectedWorkouts) # 0
  /\ programs' = updateProgramWorkouts(programs, activeProgram.id, selectedWorkouts)
  /\ activeProgram' \in loadActiveProgram(programs')
  /\ mode' = "closed"
  /\ selectedWorkouts' = <<>>
  /\ lastOp' = [op |-> "saveEdit", pid |-> activeProgram.id, id |-> NoId, n |-> 0]
  /\ editStart' = Null
  /\ removedInEdit' = {}
  /\ UNCHANGED <<callVars, editorVars, historyVars, programSessionWorkout, adding, exercises,
                 completedExercises, expandedExercises, rotationStart, selections>>

\* onClose: the manager unmounts and its form state is dropped
closeManager ==
  /\ mode = "edit"
  /\ mode' = "closed"
  /\ selectedWorkouts' = <<>>
  /\ lastOp' = [op |-> "close", pid |-> NoId, id |-> NoId, n |-> 0]
  /\ editStart' = Null
  /\ removedInEdit' = {}
  /\ UNCHANGED <<callVars, editorVars, historyVars, programs, activeProgram, programSessionWorkout,
                 adding, exercises, completedExercises, expandedExercises, rotationStart,
                 selections>>

Next ==
  \/ handleStartProgramSession
  \/ handleSaveProgramSession
  \/ \E w \in WorkoutIds : handleSaveLibrarySessionCounted(w)

Spec == Init /\ [][Next]_vars

\* a program as addProgram stores it (counters 0, no last-completed reference)
\* and ProgramManager may have re-targeted it; HomeView has loaded it
InitCounted ==
  /\ Init
  /\ activeProgram.lastCompletedWorkoutId = NoId
  /\ \A i \in 1..Len(activeProgram.workouts) :
       /\ activeProgram.workouts[i].completedCount = 0
       /\ activeProgram.workouts[i].sequenceOrder = i - 1

\* session saves that count toward the program, the program never edited
SpecCounted == InitCounted /\ [][Next]_vars

\* ------------------------------ incrementProgramWorkoutCount, read and write
\* a program id that no stored row has
MissingProgramId == "P9"

\* faulty variant: the update is skipped when no entry matched
writtenRowMatchedOnly(row, data, workoutId) ==
  IF \E i \in 1..Len(data) : data[i].workoutId = workoutId
  THEN [row EXCEPT !.workouts = incrementedWorkouts(data, workoutId),
                   !.lastCompletedWorkoutId = workoutId]
  ELSE row

\* update({workouts: updatedWorkouts, last_completed_workout_id: workoutId}),
\* updatedWorkouts mapped from the workouts the call has read
writtenRow(row, data, workoutId) ==
  [row EXCEPT !.workouts = incrementedWorkouts(data, workoutId),
              !.lastCompletedWorkoutId = workoutId]

\* the select of the call: no row, and the call returns; or the row's workouts
incrementRead(d, programId, workoutId) ==
  /\ incrementing[d].pc = "idle"
  /\ incrementing' =
       [incrementing EXCEPT ![d] =
          IF programId \in DOMAIN programs
          THEN [pc |-> "read", pid |-> programId, id |-> workoutId,
                data |-> programs[programId].workouts]
          ELSE [pc |-> "returned", pid |-> programId, id |-> workoutId, data |-> <<>>]]
  /\ lastOp' = [op |-> "incrementRead", pid |-> programId, id |-> workoutId, n |-> 0]
  /\ UNCHANGED <<editorVars, historyVars, editRecordVars, programs, activeProgram,
                 programSessionWorkout, selectedWorkouts, mode, adding, exercises,
                 completedExercises, expandedExercises, rotationStart, selections>>

\* the update of the call
incrementWrite(d) ==
  /\ incrementing[d].pc = "read"
  /\ programs' =
       IF incrementing[d].pid \in DOMAIN programs
       THEN [programs EXCEPT ![incrementing[d].pid] =
               writtenRow(@, incrementing[d].data, incrementing[d].id)]
       ELSE programs
  /\ incrementing' = [incrementing EXCEPT ![d].pc = "written"]
  /\ lastOp' = [op |-> "incrementWrite", pid |-> incrementing[d].pid,
                id |-> incrementing[d].id, n |-> 0]
  /\ UNCHANGED <<editorVars, historyVars, editRecordVars, activeProgram,
                 programSessionWorkout, selectedWorkouts, mode, adding, exercises,
                 completedExercises, expandedExercises, rotationStart, selections>>

\* the stored program before the calls: any array order, no last-completed
\* reference yet
InitCalls ==
  /\ InitRotation
  /\ activeProgram.lastCompletedWorkoutId = NoId

\* one call per device, on the stored program or on a program id that is not
\* stored, for any workout id
NextCalls ==
  \/ \E d \in Devices, w \in WorkoutIds : incrementRead(d, "P1", w)
  \/ \E w \in WorkoutIds : incrementRead("D1", MissingProgramId, w)
  \/ \E d \in Devices : incrementWrite(d)

SpecCalls == InitCalls /\ [][NextCalls]_vars

NextRotation ==
  \/ handleStartProgramSession
  \/ handleSaveProgramSession

SpecRotation == InitRotation /\ [][NextRotation]_vars

\* a rotation that begins with no entry above its target; the stored array is
\* in sequence order or in the reverse of it
InitRotationWithinTarget ==
  /\ InitRotation
  /\ \A i \in 1..Len(activeProgram.workouts) :
       activeProgram.workouts[i].completedCount <= activeProgram.workouts[i].targetCount
  /\ \/ \A i, j \in 1..Len(activeProgram.workouts) :
          i < j => activeProgram.workouts[i].sequenceOrder < activeProgram.workouts[j].sequenceOrder
     \/ \A i, j \in 1..Len(activeProgram.workouts) :
          i < j => activeProgram.workouts[i].sequenceOrder > activeProgram.workouts[j].sequenceOrder

\* the user keeps pressing "Start Next Workout" and saving the session for as
\* long as HomeView offers a next workout (programComplete is false)
SpecRotationRepeated ==
  InitRotationWithinTarget /\ [][NextRotation]_vars /\ WF_vars(NextRotation)

NextEdit ==
  \/ handleStartProgramSession
  \/ handleSaveProgramSession
  \/ editProgram
  \/ \E w \in WorkoutIds : handleRemoveWorkout(w)
  \/ handleSaveEdit
  \/ closeManager

SpecEdit == InitEdit /\ [][NextEdit]_vars

\* the target the form gives a workout added from the picker
DefaultTarget == 12

rankInOrder(w) == CHOOSE i \in 1..Len(WorkoutOrder) : WorkoutOrder[i] = w

\* handleAddWorkout: nothing when the workout is already in the list
handleAddWorkout(workoutId) ==
  /\ mode = "edit"
  /\ selectedWorkouts' =
       IF \E i \in 1..Len(selectedWorkouts) : selectedWorkouts[i].workoutId = workoutId
       THEN selectedWorkouts
       ELSE Append(selectedWorkouts,
                   workoutEntry(workoutId, Len(selectedWorkouts), DefaultTarget, 0))
  /\ lastOp' = [op |-> "addWorkout", pid |-> NoId, id |-> NoId, n |-> 0]
  /\ UNCHANGED <<callVars, editorVars, historyVars, editRecordVars, programs, activeProgram,
                 programSessionWorkout, mode, adding, exercises, completedExercises,
                 expandedExercises, rotationStart, selections>>

\* [updated[index], updated[newIndex]] = [updated[newIndex], updated[index]]
swapped(ws, i, j) == [ws EXCEPT ![i] = ws[j], ![j] = ws[i]]

\* handleMoveWorkout(index, direction), index 0-based, delta -1 (up) or 1 (down)
handleMoveWorkout(index, delta) ==
  /\ mode = "edit"
  /\ index \in 0..(Len(selectedWorkouts) - 1)
  /\ selectedWorkouts' =
       IF index + delta < 0 \/ index + delta >= Len(selectedWorkouts)
       THEN selectedWorkouts
       ELSE reindexed(swapped(selectedWorkouts, index + 1, index + delta + 1))
  /\ lastOp' = [op |-> "moveWorkout", pid |-> NoId, id |-> NoId, n |-> 0]
  /\ UNCHANGED <<callVars, editorVars, historyVars, editRecordVars, programs, activeProgram,
                 programSessionWorkout, mode, adding, exercises, completedExercises,
                 expandedExercises, rotationStart, selections>>

\* faulty variant: the requested value is stored as it is
unclampedTarget(target) == target

\* Math.max(1, target)
clampedTarget(target) == IF target > 1 THEN target ELSE 1

\* handleUpdateTarget(workoutId, target): targetCount = Math.max(1, target)
handleUpdateTarget(workoutId, target) ==
  /\ mode = "edit"
  /\ \E i \in 1..Len(selectedWorkouts) : selectedWorkouts[i].workoutId = workoutId
  /\ selectedWorkouts' =
       [i \in 1..Len(selectedWorkouts) |->
          IF selectedWorkouts[i].workoutId = workoutId
          THEN [selectedWorkouts[i] EXCEPT !.targetCount = clampedTarget(target)]
          ELSE selectedWorkouts[i]]
  /\ lastOp' = [op |-> "updateTarget", pid |-> NoId, id |-> workoutId, n |-> target]
  /\ UNCHANGED <<callVars, editorVars, historyVars, editRecordVars, programs, activeProgram,
                 programSessionWorkout, mode, adding, exercises, completedExercises,
                 expandedExercises, rotationStart, selections>>

\* a program as the form creates it (array in sequence order, every target
\* the default) with any completed counts; HomeView has loaded it
InitProgramEdit ==
  /\ \E S \in SUBSET WorkoutIds :
       \E done \in [S -> 0..MaxCount] :
         LET seq == [w \in S |-> Cardinality({v \in S : rankInOrder(v) < rankInOrder(w)})]
             target == [w \in S |-> DefaultTarget]
         IN programs = ("P1" :> programRow(TRUE, FALSE,
                            sortBySequenceOrder(workoutListFrom(1, S, seq, target, done)),
                            NoId))
  /\ activeProgram = loadedProgram(programs, "P1")
  /\ programSessionWorkout = NoId
  /\ selections = <<>>
  /\ lastOp = NoOp
  /\ rotationStart = Null
  /\ InitManager /\ InitDevices /\ InitSessionEmpty
  /\ InitEditorClosed /\ InitHistoryEmpty /\ InitNoEditRecord /\ InitNoCall

\* values the target field and its -/+ buttons can request
RequestedTargets == {-1, 0, DefaultTarget}

\* one edit of the loaded program, from the Edit button to Save or Cancel
NextProgramEdit ==
  \/ lastOp.op = "init" /\ editProgram
  \/ \E w \in WorkoutIds : handleAddWorkout(w)
  \/ \E w \in WorkoutIds : handleRemoveWorkout(w)
  \/ \E i \in 0..(Cardinality(WorkoutIds) - 1), delta \in {-1, 1} : handleMoveWorkout(i, delta)
  \/ \E w \in WorkoutIds, t \in RequestedTargets : handleUpdateTarget(w, t)
  \/ handleSaveEdit
  \/ closeManager

SpecProgramEdit == InitProgramEdit /\ [][NextProgramEdit]_vars


\* ---------------------------------------------------------------- addProgram
ProgramIdOrder == <<"P0", "P1", "P2", "P3", "P4", "P5", "P6", "P7">>
ProgramIds == {ProgramIdOrder[i] : i \in 1..MaxPrograms}

\* id: `program-${Date.now()}`: an id no stored program and no call in flight has
usedProgramIds == DOMAIN programs \cup {adding[d].id : d \in Devices}
freshProgramId ==
  ProgramIdOrder[CHOOSE i \in 1..MaxPrograms :
                   /\ ProgramIdOrder[i] \notin usedProgramIds
                   /\ \A j \in 1..(i - 1) : ProgramIdOrder[j] \in usedProgramIds]

\* faulty variant: the deactivation leaves archived_at unset
deactivatedUnstamped(table) ==
  [p \in DOMAIN table |->
     IF table[p].active THEN [table[p] EXCEPT !.active = FALSE] ELSE table[p]]

\* update({active: false, archived_at: now}).eq('device_id', ..).eq('active', true)
deactivatedActive(table) ==
  [p \in DOMAIN table |->
     IF table[p].active
     THEN [table[p] EXCEPT !.active = FALSE, !.archivedAt = TRUE]
     ELSE table[p]]

\* insert({id, active: true, workouts, last_completed_workout_id: null, ...})
insertedProgram(table, id, ws) ==
  table @@ (id :> programRow(TRUE, FALSE, ws, NoId))

\* the program ProgramManager.handleSave builds in create mode
newProgramWorkouts == <<workoutEntry("A", 0, 12, 0), workoutEntry("B", 1, 12, 0)>>

\* addProgram, first write: deactivate the owner's active programs.  The
\* outcome of the write is not looked at; ok says whether it took effect.
addProgramDeactivate(d, ok) ==
  /\ adding[d].pc = "idle"
  /\ \E i \in 1..MaxPrograms : ProgramIdOrder[i] \notin usedProgramIds
  /\ programs' = IF ok THEN deactivatedActive(programs) ELSE programs
  /\ adding' = [adding EXCEPT ![d] = [pc |-> "deactivated", id |-> freshProgramId,
                                      deactivated |-> ok, old |-> activeIds(programs)]]
  /\ lastOp' = [op |-> "deactivate", pid |-> freshProgramId, id |-> d, n |-> IF ok THEN 1 ELSE 0]
  /\ UNCHANGED <<callVars, editorVars, historyVars, editRecordVars, activeProgram,
                 programSessionWorkout, selectedWorkouts, mode, exercises,
                 completedExercises, expandedExercises, rotationStart, selections>>

\* faulty variant: a failed insert puts the deactivated programs back
afterFailedInsertRestored(table, old) ==
  [p \in DOMAIN table |->
     IF p \in old THEN [table[p] EXCEPT !.active = TRUE, !.archivedAt = FALSE] ELSE table[p]]

\* the insert failed: addProgram returns, nothing else is written
afterFailedInsert(table, old) == table

\* addProgram, second write: insert the new program with active = true
addProgramInsert(d, ok) ==
  /\ adding[d].pc = "deactivated"
  /\ programs' = IF ok THEN insertedProgram(programs, adding[d].id, newProgramWorkouts)
                 ELSE afterFailedInsert(programs, adding[d].old)
  /\ adding' = [adding EXCEPT ![d].pc = "idle"]
  /\ lastOp' = [op |-> "insert", pid |-> adding[d].id, id |-> d, n |-> IF ok THEN 1 ELSE 0]
  /\ UNCHANGED <<callVars, editorVars, historyVars, editRecordVars, activeProgram,
                 programSessionWorkout, selectedWorkouts, mode, exercises,
                 completedExercises, expandedExercises, rotationStart, selections>>

\* archiveProgram(programId) = updateProgram(programId, {active: false, archivedAt: now})
archivedProgram(table, programId) ==
  IF programId \in DOMAIN table
  THEN [table EXCEPT ![programId].active = FALSE, ![programId].archivedAt = TRUE]
  ELSE table

\* ProgramManager.handleEndProgram on the program the device has loaded
handleEndProgram(d, p) ==
  /\ adding[d].pc = "idle"
  /\ p \in DOMAIN programs
  /\ programs[p].active
  /\ programs' = archivedProgram(programs, p)
  /\ lastOp' = [op |-> "archive", pid |-> p, id |-> d, n |-> 0]
  /\ UNCHANGED <<callVars, editorVars, historyVars, editRecordVars, activeProgram,
                 programSessionWorkout, selectedWorkouts, mode, adding, exercises,
                 completedExercises, expandedExercises, rotationStart, selections>>

\* the table before the first addProgram: nothing stored, or one active program
InitTable ==
  /\ programs \in {<<>>, ("P0" :> programRow(TRUE, FALSE, newProgramWorkouts, NoId))}
  /\ activeProgram = Null
  /\ programSessionWorkout = NoId
  /\ selections = <<>>
  /\ rotationStart = Null
  /\ lastOp = NoOp

InitAdd ==
  /\ InitTable /\ InitManager /\ InitDevices /\ InitSessionEmpty
  /\ InitEditorClosed /\ InitHistoryEmpty /\ InitNoEditRecord /\ InitNoCall

\* one device; a write may fail
NextAddProgram ==
  \/ \E ok \in BOOLEAN : addProgramDeactivate("D1", ok)
  \/ \E ok \in BOOLEAN : addProgramInsert("D1", ok)
  \/ \E p \in ProgramIds : handleEndProgram("D1", p)

SpecAddProgram == InitAdd /\ [][NextAddProgram]_vars

\* two devices of the owner; every write succeeds
NextTwoDevices ==
  \/ \E d \in Devices : addProgramDeactivate(d, TRUE)
  \/ \E d \in Devices : addProgramInsert(d, TRUE)
  \/ \E d \in Devices : \E p \in ProgramIds : handleEndProgram(d, p)

SpecTwoDevices == InitAdd /\ [][NextTwoDevices]_vars

\* C6: when one addProgram has run to completion with both writes taking
\* effect and a program was active when it began, the new program is the only
\* active one and each program that was active is inactive with its archive
\* timestamp set.
C6_SingleAddProgramOneActive ==
  \A d \in Devices :
    (/\ lastOp.op = "insert" /\ lastOp.id = d /\ lastOp.n = 1
     /\ adding[d].deactivated
     /\ adding[d].old # {})
    => /\ activeIds(programs) = {adding[d].id}
       /\ \A o \in adding[d].old : ~programs[o].active /\ programs[o].archivedAt

C6_Witness ==
  /\ lastOp = [op |-> "insert", pid |-> "P2", id |-> "D1", n |-> 1]
  /\ adding["D1"].deactivated
  /\ adding["D1"].old = {"P1"}
  /\ programs["P2"].active

\* C7: at most one stored program has active = true, in every reachable state
\* of the table.
C7_AtMostOneActive == Cardinality(activeIds(programs)) <= 1

\* ------------------------------------------------------------ SessionLogger
ExerciseOrder == <<"a", "b", "c">>
ExerciseIds == {ExerciseOrder[i] : i \in 1..Len(ExerciseOrder)}

\* workoutToExercises: defaultSets sets per exercise, none completed; b and c
\* form the superset g1
newSets(n) == [k \in 1..n |-> [id |-> k, reps |-> 10, completed |-> FALSE]]

workoutToExercises(setCount) ==
  [i \in 1..Len(ExerciseOrder) |->
     [id |-> ExerciseOrder[i],
      sets |-> newSets(setCount[ExerciseOrder[i]]),
      supersetGroupId |-> IF i = 1 THEN NoId ELSE "g1",
      supersetOrder |-> IF i = 1 THEN 0 ELSE i - 2]]

\* a new session of a workout; the mount effect expands every exercise
InitSession ==
  \E setCount \in [ExerciseIds -> 0..MaxSets] :
    /\ setCount["a"] + setCount["b"] + setCount["c"] <= MaxSets + 1
    /\ exercises = workoutToExercises(setCount)
    /\ completedExercises = {}
    /\ expandedExercises = ExerciseIds
    /\ lastOp = NoOp

InitLogger ==
  /\ InitSession /\ InitManager /\ InitDevices
  /\ InitEditorClosed /\ InitHistoryEmpty /\ InitNoEditRecord /\ InitNoCall
  /\ programs = <<>>
  /\ activeProgram = Null
  /\ programSessionWorkout = NoId
  /\ selections = <<>>
  /\ rotationStart = Null

setIdsOf(exs, exerciseId) ==
  UNION {{exs[i].sets[k].id : k \in 1..Len(exs[i].sets)} :
           i \in {j \in 1..Len(exs) : exs[j].id = exerciseId}}

\* faulty variant: the set is marked completed instead of being flipped
withSetChecked(exs, exerciseId, setId) ==
  [i \in 1..Len(exs) |->
     IF exs[i].id = exerciseId
     THEN [exs[i] EXCEPT !.sets =
             [k \in 1..Len(@) |->
                IF @[k].id = setId THEN [@[k] EXCEPT !.completed = TRUE] ELSE @[k]]]
     ELSE exs[i]]

\* exercises.map(ex => ex.id === exerciseId
\*   ? {...ex, sets: ex.sets.map(s => s.id === setId ? {...s, completed: !s.completed} : s)} : ex)
withSetToggled(exs, exerciseId, setId) ==
  [i \in 1..Len(exs) |->
     IF exs[i].id = exerciseId
     THEN [exs[i] EXCEPT !.sets =
             [k \in 1..Len(@) |->
                IF @[k].id = setId THEN [@[k] EXCEPT !.completed = ~@] ELSE @[k]]]
     ELSE exs[i]]

toggleSetComplete(exerciseId, setId) ==
  /\ setId \in setIdsOf(exercises, exerciseId)
  /\ exercises' = withSetToggled(exercises, exerciseId, setId)
  /\ lastOp' = [op |-> "toggleSet", pid |-> NoId, id |-> exerciseId, n |-> setId]
  /\ UNCHANGED <<callVars, editorVars, historyVars, editRecordVars, programs, activeProgram,
                 programSessionWorkout, selectedWorkouts, mode, adding,
                 completedExercises, expandedExercises, rotationStart, selections>>

toggleExpanded(exerciseId) ==
  /\ exerciseId \in {exercises[i].id : i \in 1..Len(exercises)}
  /\ expandedExercises' = IF exerciseId \in expandedExercises
                          THEN expandedExercises \ {exerciseId}
                          ELSE expandedExercises \cup {exerciseId}
  /\ lastOp' = [op |-> "toggleExpanded", pid |-> NoId, id |-> exerciseId, n |-> 0]
  /\ UNCHANGED <<callVars, editorVars, historyVars, editRecordVars, programs, activeProgram,
                 programSessionWorkout, selectedWorkouts, mode, adding, exercises,
                 completedExercises, rotationStart, selections>>

\* faulty variant: the exercise id test of the map is dropped
withEverySetCompleted(exs, exerciseId) ==
  [i \in 1..Len(exs) |->
     [exs[i] EXCEPT !.sets = [k \in 1..Len(@) |-> [@[k] EXCEPT !.completed = TRUE]]]]

\* exercises.map(ex => ex.id === exerciseId
\*   ? {...ex, sets: ex.sets.map(s => ({...s, completed: true}))} : ex)
withSetsCompleted(exs, exerciseId) ==
  [i \in 1..Len(exs) |->
     IF exs[i].id = exerciseId
     THEN [exs[i] EXCEPT !.sets = [k \in 1..Len(@) |-> [@[k] EXCEPT !.completed = TRUE]]]
     ELSE exs[i]]

markExerciseComplete(exerciseId) ==
  /\ exerciseId \in {exercises[i].id : i \in 1..Len(exercises)}
  /\ exercises' = withSetsCompleted(exercises, exerciseId)
  /\ completedExercises' = completedExercises \cup {exerciseId}
  /\ expandedExercises' = expandedExercises \ {exerciseId}
  /\ lastOp' = [op |-> "markExercise", pid |-> NoId, id |-> exerciseId, n |-> 0]
  /\ UNCHANGED <<callVars, editorVars, historyVars, editRecordVars, programs, activeProgram,
                 programSessionWorkout, selectedWorkouts, mode, adding, rotationStart,
                 selections>>

\* faulty variant: the undo clears the completed flags of the exercise's sets
exercisesAfterUndoCleared(exs, exerciseId) ==
  [i \in 1..Len(exs) |->
     IF exs[i].id = exerciseId
     THEN [exs[i] EXCEPT !.sets = [k \in 1..Len(@) |-> [@[k] EXCEPT !.completed = FALSE]]]
     ELSE exs[i]]

\* undoExerciseComplete makes no setExercises call
exercisesAfterUndo(exs, exerciseId) == exs

\* lastOp.n tells whether the undo came right after markExerciseComplete of
\* the same exercise
undoExerciseComplete(exerciseId) ==
  /\ exerciseId \in {exercises[i].id : i \in 1..Len(exercises)}
  /\ exercises' = exercisesAfterUndo(exercises, exerciseId)
  /\ completedExercises' = completedExercises \ {exerciseId}
  /\ expandedExercises' = expandedExercises \cup {exerciseId}
  /\ lastOp' = [op |-> "undoExercise", pid |-> NoId, id |-> exerciseId,
                n |-> IF lastOp.op = "markExercise" /\ lastOp.id = exerciseId THEN 1 ELSE 0]
  /\ UNCHANGED <<callVars, editorVars, historyVars, editRecordVars, programs, activeProgram,
                 programSessionWorkout, selectedWorkouts, mode, adding, rotationStart,
                 selections>>

NextSession ==
  \/ \E e \in ExerciseIds : \E k \in 1..MaxSets : toggleSetComplete(e, k)
  \/ \E e \in ExerciseIds : toggleExpanded(e)
  \/ \E e \in ExerciseIds : markExerciseComplete(e)
  \/ \E e \in ExerciseIds : undoExerciseComplete(e)

SpecSession == InitLogger /\ [][NextSession]_vars

\* ------------------------------------------------- SessionLogger supersets
GroupIds == {"g1", "g2"}

idsOf(exs) == {exs[i].id : i \in 1..Len(exs)}

\* getSupersetGroups: group id -> the exercises carrying it, in list order
getSupersetGroups(exs) ==
  [g \in {exs[i].supersetGroupId : i \in 1..Len(exs)} \ {NoId} |->
     SelectSeq(exs, LAMBDA ex : ex.supersetGroupId = g)]

\* supersetGroups.get(groupId) || []
groupExercisesOf(exs, groupId) ==
  IF groupId \in DOMAIN getSupersetGroups(exs) THEN getSupersetGroups(exs)[groupId] ELSE <<>>

\* faulty variant: one completed member is enough
isSupersetCompleteSome(exs, completed, groupId) ==
  \E i \in 1..Len(groupExercisesOf(exs, groupId)) :
    groupExercisesOf(exs, groupId)[i].id \in completed

\* groupExercises.every(ex => completedExercises.has(ex.id))
isSupersetComplete(exs, completed, groupId) ==
  \A i \in 1..Len(groupExercisesOf(exs, groupId)) :
    groupExercisesOf(exs, groupId)[i].id \in completed

\* faulty variant: only the first member of the group gets its sets completed
withFirstMemberCompleted(exs, groupId) ==
  [i \in 1..Len(exs) |->
     IF exs[i].supersetGroupId = groupId
        /\ \A j \in 1..(i - 1) : exs[j].supersetGroupId # groupId
     THEN [exs[i] EXCEPT !.sets = [k \in 1..Len(@) |-> [@[k] EXCEPT !.completed = TRUE]]]
     ELSE exs[i]]

\* exercises.map(ex => ex.supersetGroupId === groupId
\*   ? {...ex, sets: ex.sets.map(s => ({...s, completed: true}))} : ex)
withSupersetSetsCompleted(exs, groupId) ==
  [i \in 1..Len(exs) |->
     IF exs[i].supersetGroupId = groupId
     THEN [exs[i] EXCEPT !.sets = [k \in 1..Len(@) |-> [@[k] EXCEPT !.completed = TRUE]]]
     ELSE exs[i]]

\* the three state updates of the handler are applied together; lastOp.n is
\* the number of members the group had
markSupersetComplete(groupId) ==
  LET groupExercises == groupExercisesOf(exercises, groupId) IN
  /\ exercises' = withSupersetSetsCompleted(exercises, groupId)
  /\ completedExercises' = completedExercises \cup idsOf(groupExercises)
  /\ expandedExercises' = expandedExercises \ idsOf(groupExercises)
  /\ lastOp' = [op |-> "markSuperset", pid |-> NoId, id |-> groupId,
                n |-> Len(groupExercises)]
  /\ UNCHANGED <<callVars, editorVars, historyVars, editRecordVars, programs, activeProgram,
                 programSessionWorkout, selectedWorkouts, mode, adding, rotationStart,
                 selections>>

\* faulty variant: only the first member leaves the Completed set
completedAfterFirstUndone(completed, groupExercises) ==
  IF Len(groupExercises) = 0 THEN completed ELSE completed \ {groupExercises[1].id}

\* groupExercises.forEach(ex => next.delete(ex.id))
completedAfterSupersetUndo(completed, groupExercises) ==
  completed \ idsOf(groupExercises)

undoSupersetComplete(groupId) ==
  LET groupExercises == groupExercisesOf(exercises, groupId) IN
  /\ completedExercises' = completedAfterSupersetUndo(completedExercises, groupExercises)
  /\ expandedExercises' = expandedExercises \cup idsOf(groupExercises)
  /\ lastOp' = [op |-> "undoSuperset", pid |-> NoId, id |-> groupId,
                n |-> Len(groupExercises)]
  /\ UNCHANGED <<callVars, editorVars, historyVars, editRecordVars, programs, activeProgram,
                 programSessionWorkout, selectedWorkouts, mode, adding, exercises,
                 rotationStart, selections>>

\* exercises.filter(ex => ex.id !== exerciseId); the Completed and expanded
\* sets keep the id
removeExercise(exerciseId) ==
  /\ exerciseId \in idsOf(exercises)
  /\ exercises' = SelectSeq(exercises, LAMBDA ex : ex.id # exerciseId)
  /\ lastOp' = [op |-> "removeExercise", pid |-> NoId, id |-> exerciseId, n |-> 0]
  /\ UNCHANGED <<callVars, editorVars, historyVars, editRecordVars, programs, activeProgram,
                 programSessionWorkout, selectedWorkouts, mode, adding,
                 completedExercises, expandedExercises, rotationStart, selections>>

NextSuperset ==
  \/ \E e \in ExerciseIds : \E k \in 1..MaxSets : toggleSetComplete(e, k)
  \/ \E e \in ExerciseIds : markExerciseComplete(e)
  \/ \E e \in ExerciseIds : undoExerciseComplete(e)
  \/ \E g \in GroupIds : markSupersetComplete(g)
  \/ \E g \in GroupIds : undoSupersetComplete(g)
  \/ \E e \in ExerciseIds : removeExercise(e)

SpecSuperset == InitLogger /\ [][NextSuperset]_vars

\* -------------------------------------------------- SessionLogger: set list
RECURSIVE setCountFrom(_, _)
setCountFrom(exs, i) ==
  IF i > Len(exs) THEN 0 ELSE Len(exs[i].sets) + setCountFrom(exs, i + 1)

\* number of sets in the session
totalSets(exs) == setCountFrom(exs, 1)

\* `${Date.now()}-${ex.sets.length}`: an id no set of the exercise has
newSetId(sets) ==
  CHOOSE k \in 1..(Len(sets) + 1) : \A j \in 1..Len(sets) : sets[j].id # k

\* {...ex, sets: [...ex.sets, {id, reps: lastSet?.reps || 10, completed: false}]}
withSetAdded(exs, exerciseId) ==
  [i \in 1..Len(exs) |->
     IF exs[i].id = exerciseId
     THEN [exs[i] EXCEPT !.sets =
             Append(@, [id |-> newSetId(@),
                        reps |-> IF Len(@) > 0 THEN @[Len(@)].reps ELSE 10,
                        completed |-> FALSE])]
     ELSE exs[i]]

addSet(exerciseId) ==
  /\ \E i \in 1..Len(exercises) :
       exercises[i].id = exerciseId /\ Len(exercises[i].sets) < MaxSets
  /\ totalSets(exercises) < MaxSets + 1
  /\ exercises' = withSetAdded(exercises, exerciseId)
  /\ lastOp' = [op |-> "addSet", pid |-> NoId, id |-> NoId, n |-> 0]
  /\ UNCHANGED <<callVars, editorVars, historyVars, editRecordVars, programs, activeProgram,
                 programSessionWorkout, selectedWorkouts, mode, adding,
                 completedExercises, expandedExercises, rotationStart, selections>>

\* {...ex, sets: ex.sets.filter(s => s.id !== setId)}
withSetRemoved(exs, exerciseId, setId) ==
  [i \in 1..Len(exs) |->
     IF exs[i].id = exerciseId
     THEN [exs[i] EXCEPT !.sets = SelectSeq(@, LAMBDA st : st.id # setId)]
     ELSE exs[i]]

removeSet(exerciseId, setId) ==
  /\ setId \in setIdsOf(exercises, exerciseId)
  /\ exercises' = withSetRemoved(exercises, exerciseId, setId)
  /\ lastOp' = [op |-> "removeSet", pid |-> NoId, id |-> NoId, n |-> 0]
  /\ UNCHANGED <<callVars, editorVars, historyVars, editRecordVars, programs, activeProgram,
                 programSessionWorkout, selectedWorkouts, mode, adding,
                 completedExercises, expandedExercises, rotationStart, selections>>

\* an active session whose exercise list is fixed: the set and completion
\* handlers
NextSetList ==
  \/ \E e \in ExerciseIds : \E k \in 1..MaxSets : toggleSetComplete(e, k)
  \/ \E e \in ExerciseIds : addSet(e)
  \/ \E e \in ExerciseIds : \E k \in 1..MaxSets : removeSet(e, k)
  \/ \E e \in ExerciseIds : markExerciseComplete(e)
  \/ \E e \in ExerciseIds : undoExerciseComplete(e)
  \/ \E g \in GroupIds : markSupersetComplete(g)
  \/ \E g \in GroupIds : undoSupersetComplete(g)

SpecSetList == InitLogger /\ [][NextSetList]_vars

\* --------------------------------------------- SessionLogger: exercise list
\* ids `${Date.now()}-${random}` of exercises added from the picker
AddedExerciseIds == {"d"}
SessionExerciseIds == ExerciseIds \cup AddedExerciseIds

\* the added ids that no state of the logger has seen yet
unusedExerciseIds ==
  AddedExerciseIds \ (idsOf(exercises) \cup completedExercises \cup expandedExercises)

\* addExercise of the logger: a new exercise with one set, not completed, not
\* in a superset, appended and expanded
addSessionExercise ==
  /\ unusedExerciseIds # {}
  /\ LET newId == CHOOSE e \in unusedExerciseIds : TRUE
     IN /\ exercises' = Append(exercises,
                               [id |-> newId, sets |-> newSets(1),
                                supersetGroupId |-> NoId, supersetOrder |-> 0])
        /\ expandedExercises' = expandedExercises \cup {newId}
        /\ lastOp' = [op |-> "addSessionExercise", pid |-> NoId, id |-> newId, n |-> 0]
  /\ UNCHANGED <<callVars, editorVars, historyVars, editRecordVars, programs, activeProgram,
                 programSessionWorkout, selectedWorkouts, mode, adding,
                 completedExercises, rotationStart, selections>>

\* totalExercises > 0 ? Math.round((completedCount / totalExercises) * 100) : 0
progressPercent ==
  LET totalExercises == Len(exercises)
      completedCount == Cardinality(completedExercises)
  IN IF totalExercises > 0
     THEN (200 * completedCount + totalExercises) \div (2 * totalExercises)
     ELSE 0

NextExerciseList ==
  \/ \E e \in SessionExerciseIds : \E k \in 1..MaxSets : toggleSetComplete(e, k)
  \/ \E e \in SessionExerciseIds : markExerciseComplete(e)
  \/ \E e \in SessionExerciseIds : undoExerciseComplete(e)
  \/ \E g \in GroupIds : markSupersetComplete(g)
  \/ \E g \in GroupIds : undoSupersetComplete(g)
  \/ addSessionExercise
  \/ \E e \in SessionExerciseIds : removeExercise(e)

SpecExerciseList == InitLogger /\ [][NextExerciseList]_vars

\* ------------------------------------------------------------ WorkoutEditor
MaxExercises == 4
MaxSupersets == 2

LibraryOrder == <<"w", "x", "y", "z", "u", "v">>
LibraryIds == {LibraryOrder[i] : i \in 1..MaxExercises}

\* superset-${Date.now()}: one id per clock value
SupersetIdOrder == <<"s1", "s2", "s3", "s4", "s5", "s6">>
supersetIdAt(t) == SupersetIdOrder[t]

\* supersetOrder: undefined
NoOrder == -1

workoutExercise(id, groupId, order) ==
  [id |-> id, supersetGroupId |-> groupId, supersetOrder |-> order]

\* a.supersetOrder || 0
orderOrZero(ex) == IF ex.supersetOrder = NoOrder THEN 0 ELSE ex.supersetOrder

\* groupExercises.sort((a, b) => (a.supersetOrder || 0) - (b.supersetOrder || 0)):
\* a stable sort
insertByOrder(s, ex) ==
  LET after == {i \in 1..Len(s) : orderOrZero(s[i]) > orderOrZero(ex)}
      k == IF after = {} THEN Len(s) + 1 ELSE CHOOSE i \in after : \A j \in after : i <= j
  IN SubSeq(s, 1, k - 1) \o <<ex>> \o SubSeq(s, k, Len(s))

RECURSIVE sortBySupersetOrder(_)
sortBySupersetOrder(s) ==
  IF s = <<>> THEN <<>>
  ELSE insertByOrder(sortBySupersetOrder(SubSeq(s, 1, Len(s) - 1)), s[Len(s)])

\* faulty variant: every grouped exercise opens a cluster of its own
RECURSIVE groupedEachMember(_, _, _)
groupedEachMember(exs, i, processed) ==
  IF i > Len(exs) THEN <<>>
  ELSE IF exs[i].supersetGroupId # NoId
       THEN <<[type |-> "superset", groupId |-> exs[i].supersetGroupId,
               exercises |-> sortBySupersetOrder(groupExercisesOf(exs, exs[i].supersetGroupId))]>>
            \o groupedEachMember(exs, i + 1, processed)
       ELSE <<[type |-> "exercise", groupId |-> NoId, exercises |-> <<exs[i]>>]>>
            \o groupedEachMember(exs, i + 1, processed)

\* the forEach of getGroupedExercises from position i on, processedSupersets
\* holding the group ids already emitted
RECURSIVE groupedFrom(_, _, _)
groupedFrom(exs, i, processed) ==
  IF i > Len(exs) THEN <<>>
  ELSE IF exs[i].supersetGroupId # NoId
       THEN IF exs[i].supersetGroupId \notin processed
            THEN <<[type |-> "superset", groupId |-> exs[i].supersetGroupId,
                    exercises |-> sortBySupersetOrder(
                                    groupExercisesOf(exs, exs[i].supersetGroupId))]>>
                 \o groupedFrom(exs, i + 1, processed \cup {exs[i].supersetGroupId})
            ELSE groupedFrom(exs, i + 1, processed)
       ELSE <<[type |-> "exercise", groupId |-> NoId, exercises |-> <<exs[i]>>]>>
            \o groupedFrom(exs, i + 1, processed)

getGroupedExercises(exs) == groupedFrom(exs, 1, {})

standaloneIds(exs) ==
  {exs[i].id : i \in {j \in 1..Len(exs) : exs[j].supersetGroupId = NoId}}

editorUnchanged ==
  UNCHANGED <<callVars, programs, activeProgram, programSessionWorkout, selectedWorkouts, mode,
              adding, exercises, completedExercises, expandedExercises, rotationStart,
              selections, historyVars, editRecordVars>>

\* id: `${Date.now()}-${Math.random()...}`, an id no exercise of the form has;
\* here the first id after those in the form
nextExerciseId(exs) ==
  LibraryOrder[1 + Cardinality({i \in 1..Len(LibraryOrder) :
                                 \E j \in i..Len(LibraryOrder) : LibraryOrder[j] \in idsOf(exs)})]

addExercise(exerciseId) ==
  /\ exerciseId = nextExerciseId(workoutExercises)
  /\ workoutExercises' = Append(workoutExercises, workoutExercise(exerciseId, NoId, NoOrder))
  /\ groupedExercises' = getGroupedExercises(workoutExercises')
  /\ lastOp' = [op |-> "addExercise", pid |-> NoId, id |-> NoId, n |-> 0]
  /\ UNCHANGED <<callVars, selectedForSuperset, supersetMode, clock>>
  /\ editorUnchanged

\* the remove button of a standalone card is shown outside superset mode, the
\* one of a cluster member always
removeWorkoutExercise(exerciseId) ==
  /\ exerciseId \in idsOf(workoutExercises)
  /\ exerciseId \in standaloneIds(workoutExercises) => ~supersetMode
  /\ workoutExercises' = SelectSeq(workoutExercises, LAMBDA ex : ex.id # exerciseId)
  /\ selectedForSuperset' = selectedForSuperset \ {exerciseId}
  /\ groupedExercises' = getGroupedExercises(workoutExercises')
  /\ lastOp' = [op |-> "removeWorkoutExercise", pid |-> NoId, id |-> NoId, n |-> 0]
  /\ UNCHANGED <<callVars, supersetMode, clock>>
  /\ editorUnchanged

\* the Create Superset / Cancel Superset button, shown with 2 or more exercises
toggleSupersetMode ==
  /\ Len(workoutExercises) >= 2
  /\ supersetMode' = ~supersetMode
  /\ lastOp' = [op |-> "toggleSupersetMode", pid |-> NoId, id |-> NoId, n |-> 0]
  /\ UNCHANGED <<callVars, workoutExercises, selectedForSuperset, clock, groupedExercises>>
  /\ editorUnchanged

\* a click on a standalone card in superset mode
toggleSupersetSelection(exerciseId) ==
  /\ supersetMode
  /\ exerciseId \in standaloneIds(workoutExercises)
  /\ selectedForSuperset' = IF exerciseId \in selectedForSuperset
                            THEN selectedForSuperset \ {exerciseId}
                            ELSE selectedForSuperset \cup {exerciseId}
  /\ lastOp' = [op |-> "toggleSupersetSelection", pid |-> NoId, id |-> NoId, n |-> 0]
  /\ UNCHANGED <<callVars, workoutExercises, supersetMode, clock, groupedExercises>>
  /\ editorUnchanged

\* faulty variant: every selected exercise gets supersetOrder 0
withSupersetUnordered(exs, selected, supersetId) ==
  [i \in 1..Len(exs) |->
     IF exs[i].id \in selected
     THEN [exs[i] EXCEPT !.supersetGroupId = supersetId, !.supersetOrder = 0]
     ELSE exs[i]]

\* exercises.map(ex => selectedForSuperset.has(ex.id)
\*   ? {...ex, supersetGroupId: supersetId, supersetOrder: order++} : ex)
withSuperset(exs, selected, supersetId) ==
  [i \in 1..Len(exs) |->
     IF exs[i].id \in selected
     THEN [exs[i] EXCEPT !.supersetGroupId = supersetId,
                         !.supersetOrder =
                            Cardinality({j \in 1..(i - 1) : exs[j].id \in selected})]
     ELSE exs[i]]

\* lastOp.n is the number of selected exercises; the clock has moved on when
\* the next superset is created
createSuperset ==
  /\ clock < MaxSupersets
  /\ IF Cardinality(selectedForSuperset) < 2
     THEN UNCHANGED <<callVars, workoutExercises, selectedForSuperset, supersetMode, clock,
                      groupedExercises>>
     ELSE /\ workoutExercises' =
               withSuperset(workoutExercises, selectedForSuperset, supersetIdAt(clock + 1))
          /\ selectedForSuperset' = {}
          /\ supersetMode' = FALSE
          /\ clock' = clock + 1
          /\ groupedExercises' = getGroupedExercises(workoutExercises')
  /\ lastOp' = [op |-> "createSuperset", pid |-> NoId,
                id |-> IF Cardinality(selectedForSuperset) < 2 THEN NoId
                       ELSE supersetIdAt(clock + 1),
                n |-> Cardinality(selectedForSuperset)]
  /\ editorUnchanged

\* exercises.map(ex => ex.id === exerciseId
\*   ? {...ex, supersetGroupId: undefined, supersetOrder: undefined} : ex)
removeFromSuperset(exs, exerciseId) ==
  [i \in 1..Len(exs) |->
     IF exs[i].id = exerciseId
     THEN [exs[i] EXCEPT !.supersetGroupId = NoId, !.supersetOrder = NoOrder]
     ELSE exs[i]]

\* item.exercises.forEach(ex => removeFromSuperset(ex.id)): every call maps the
\* exercises of the render the button belongs to and sets the state to the
\* result, so the state after the handler is the result of the last call
RECURSIVE ungroupedBy(_, _, _)
ungroupedBy(rendered, members, current) ==
  IF members = <<>> THEN current
  ELSE ungroupedBy(rendered, Tail(members), removeFromSuperset(rendered, Head(members).id))

\* the Ungroup button of the cluster unit of group groupId; lastOp.n is the
\* number of members
ungroup(groupId) ==
  /\ \E u \in 1..Len(groupedExercises) :
       /\ groupedExercises[u].type = "superset"
       /\ groupedExercises[u].groupId = groupId
       /\ workoutExercises' =
            ungroupedBy(workoutExercises, groupedExercises[u].exercises, workoutExercises)
       /\ lastOp' = [op |-> "ungroup", pid |-> NoId, id |-> groupId,
                     n |-> Len(groupedExercises[u].exercises)]
  /\ groupedExercises' = getGroupedExercises(workoutExercises')
  /\ UNCHANGED <<callVars, selectedForSuperset, supersetMode, clock>>
  /\ editorUnchanged

\* a workout form: a new workout, or a stored workout without supersets
InitNewWorkout ==
  /\ \E n \in 0..MaxExercises :
       workoutExercises = [i \in 1..n |-> workoutExercise(LibraryOrder[i], NoId, NoOrder)]
  /\ selectedForSuperset = {}
  /\ supersetMode = FALSE
  /\ clock = 0
  /\ groupedExercises = getGroupedExercises(workoutExercises)

InitWorkoutEditor ==
  /\ InitNewWorkout /\ InitManager /\ InitDevices /\ InitSessionEmpty
  /\ InitHistoryEmpty /\ InitNoEditRecord /\ InitNoCall
  /\ programs = <<>>
  /\ activeProgram = Null
  /\ programSessionWorkout = NoId
  /\ selections = <<>>
  /\ rotationStart = Null
  /\ lastOp = NoOp

NextWorkoutEditor ==
  \/ \E e \in LibraryIds : addExercise(e)
  \/ \E e \in LibraryIds : removeWorkoutExercise(e)
  \/ toggleSupersetMode
  \/ \E e \in LibraryIds : toggleSupersetSelection(e)
  \/ createSuperset
  \/ \E g \in {supersetIdAt(t) : t \in 1..MaxSupersets} : ungroup(g)

SpecWorkoutEditor == InitWorkoutEditor /\ [][NextWorkoutEditor]_vars

\* a stored workout opened in the form: exercises in any grouping, with
\* supersetOrder values that may be missing or equal
StoredSupersetIds == {"p1", "p2"}
StoredOrders == {NoOrder, 0, 1}

InitLoadedWorkout ==
  /\ \E n \in 0..MaxExercises :
       \E g \in [1..n -> StoredSupersetIds \cup {NoId}], o \in [1..n -> StoredOrders] :
         /\ \A i \in 1..n : g[i] = NoId => o[i] = NoOrder
         /\ workoutExercises = [i \in 1..n |-> workoutExercise(LibraryOrder[i], g[i], o[i])]
  /\ selectedForSuperset = {}
  /\ supersetMode = FALSE
  /\ clock = 0
  /\ groupedExercises = getGroupedExercises(workoutExercises)
  /\ InitManager /\ InitDevices /\ InitSessionEmpty
  /\ InitHistoryEmpty /\ InitNoEditRecord /\ InitNoCall
  /\ programs = <<>>
  /\ activeProgram = Null
  /\ programSessionWorkout = NoId
  /\ selections = <<>>
  /\ rotationStart = Null
  /\ lastOp = NoOp

NextLoadedWorkout ==
  \/ \E e \in LibraryIds : addExercise(e)
  \/ \E e \in LibraryIds : removeWorkoutExercise(e)
  \/ \E g \in StoredSupersetIds : ungroup(g)

SpecLoadedWorkout == InitLoadedWorkout /\ [][NextLoadedWorkout]_vars

\* --------------------------------------------------- getLastExerciseHistory
MaxSessions == 3
MaxDate == 2

SessionIdOrder == <<"S1", "S2", "S3", "S4", "S5">>
SessionIds == {SessionIdOrder[i] : i \in 1..MaxSessions}
HistoryExerciseIds == {"e1", "e2"}

\* session.date is a text column: a yyyy-MM-dd day (1..MaxDate here), or the
\* empty text the date field of the session form gives when it is cleared
EmptyDate == 0
SessionDates == {EmptyDate} \cup 1..MaxDate

\* new Date(date).getTime() is NaN for the empty text
isNaNTime(date) == date = EmptyDate

\* (a, b) => new Date(b.date).getTime() - new Date(a.date).getTime(); the
\* sort reads a NaN result as 0
compareByDateDesc(a, b) ==
  IF isNaNTime(a.date) \/ isNaNTime(b.date) THEN 0 ELSE b.date - a.date

\* one exercise of a session; the weight tells the entries apart
sessionExercise(exerciseId, tag) ==
  [exerciseId |-> exerciseId,
   sets |-> <<[id |-> 1, reps |-> 10, weight |-> tag, completed |-> TRUE]>>,
   notes |-> exerciseId]

\* the exercise lists a stored session has here
SessionContents ==
  {<<>>, <<sessionExercise("e1", 1)>>, <<sessionExercise("e2", 1)>>,
   <<sessionExercise("e2", 1), sessionExercise("e1", 2)>>,
   <<sessionExercise("e1", 1), sessionExercise("e1", 2)>>}

\* sessions.filter(s => s.id !== excludeSessionId)
withoutExcluded(ss, excludeSessionId) ==
  SelectSeq(ss, LAMBDA s : s.id # excludeSessionId)

insertByDateDesc(sorted, s) ==
  LET after == {i \in 1..Len(sorted) : compareByDateDesc(sorted[i], s) > 0}
      k == IF after = {} THEN Len(sorted) + 1
           ELSE CHOOSE i \in after : \A j \in after : i <= j
  IN SubSeq(sorted, 1, k - 1) \o <<s>> \o SubSeq(sorted, k, Len(sorted))

RECURSIVE stableSortByDateDesc(_)
stableSortByDateDesc(ss) ==
  IF ss = <<>> THEN <<>>
  ELSE insertByDateDesc(stableSortByDateDesc(SubSeq(ss, 1, Len(ss) - 1)), ss[Len(ss)])

permutationsOf(ss) ==
  {[i \in 1..Len(ss) |-> ss[f[i]]] :
     f \in {g \in [1..Len(ss) -> 1..Len(ss)] : \A i, j \in 1..Len(ss) : i # j => g[i] # g[j]}}

\* Array.prototype.sort: the stable order when the comparator is consistent;
\* with an unparseable date it is not (that session compares equal to all
\* others) and the order is whatever the engine's algorithm leaves
sortedSessions(ss) ==
  IF \E i \in 1..Len(ss) : isNaNTime(ss[i].date)
  THEN permutationsOf(ss)
  ELSE {stableSortByDateDesc(ss)}

containsExercise(s, exerciseId) ==
  \E k \in 1..Len(s.exercises) : s.exercises[k].exerciseId = exerciseId

\* session.exercises.find(ex => ex.exerciseId === exerciseId), projected
historyOf(s, exerciseId) ==
  LET k == CHOOSE i \in 1..Len(s.exercises) :
             /\ s.exercises[i].exerciseId = exerciseId
             /\ \A j \in 1..(i - 1) : s.exercises[j].exerciseId # exerciseId
      exerciseData == s.exercises[k]
  IN [date |-> s.date, sessionName |-> s.name,
      sets |-> [n \in 1..Len(exerciseData.sets) |->
                  [reps |-> exerciseData.sets[n].reps,
                   weight |-> exerciseData.sets[n].weight,
                   completed |-> exerciseData.sets[n].completed]],
      notes |-> exerciseData.notes]

\* faulty variant: the last session of the sorted list that holds the
\* exercise is taken
lastMatchIn(sorted, exerciseId) ==
  LET hits == {i \in 1..Len(sorted) : containsExercise(sorted[i], exerciseId)}
  IN IF hits = {} THEN Null
     ELSE historyOf(sorted[CHOOSE i \in hits : \A j \in hits : j <= i], exerciseId)

\* for (const session of sortedSessions): the first session holding the exercise
firstMatchIn(sorted, exerciseId) ==
  LET hits == {i \in 1..Len(sorted) : containsExercise(sorted[i], exerciseId)}
  IN IF hits = {} THEN Null
     ELSE historyOf(sorted[CHOOSE i \in hits : \A j \in hits : i <= j], exerciseId)

\* every result the call can give
lastExerciseHistories(ss, exerciseId, excludeSessionId) ==
  {firstMatchIn(sorted, exerciseId) :
     sorted \in sortedSessions(withoutExcluded(ss, excludeSessionId))}

\* lastOp.pid is the excluded session id (NoId when none is given)
getLastExerciseHistory(exerciseId, excludeSessionId) ==
  /\ exerciseHistory' \in lastExerciseHistories(sessions, exerciseId, excludeSessionId)
  /\ lastOp' = [op |-> "history", pid |-> excludeSessionId, id |-> exerciseId, n |-> 0]
  /\ UNCHANGED <<callVars, programs, activeProgram, programSessionWorkout, selectedWorkouts, mode,
                 adding, exercises, completedExercises, expandedExercises, rotationStart,
                 selections, editorVars, sessions, editRecordVars>>

\* the loaded collection: sessions S1..Sn in created_at order, each with any
\* date and any contents
InitSessions ==
  \E n \in 0..MaxSessions :
    \E d \in [1..n -> SessionDates], c \in [1..n -> SessionContents] :
      sessions = [i \in 1..n |->
                    [id |-> SessionIdOrder[i], name |-> SessionIdOrder[i],
                     date |-> d[i], exercises |-> c[i]]]

InitHistory ==
  /\ InitSessions
  /\ exerciseHistory = Null
  /\ InitManager /\ InitDevices /\ InitSessionEmpty /\ InitEditorClosed /\ InitNoEditRecord /\ InitNoCall
  /\ programs = <<>>
  /\ activeProgram = Null
  /\ programSessionWorkout = NoId
  /\ selections = <<>>
  /\ rotationStart = Null
  /\ lastOp = NoOp

NextHistory ==
  \E e \in HistoryExerciseIds, x \in SessionIds \cup {NoId} : getLastExerciseHistory(e, x)

SpecHistory == InitHistory /\ [][NextHistory]_vars

\* ---------------------------------------- editing and deleting a session
\* faulty variant: the history view hands the logger the program of the session
historyEditorPropsWithProgram == [programId |-> "P1", activeProgram |-> Null]

\* <SessionLogger session={editingSession} onClose onSave />: neither programId
\* nor activeProgram is passed
historyEditorProps == [programId |-> NoId, activeProgram |-> Null]

\* workoutInProgram: !programId && activeProgram && workoutId ? find(...) : null
workoutInProgram(props, workoutId) ==
  IF props.programId = NoId /\ props.activeProgram # Null /\ workoutId # NoId
  THEN \E i \in 1..Len(props.activeProgram.workouts) :
         props.activeProgram.workouts[i].workoutId = workoutId
  ELSE FALSE

\* handleSave: saveSession(true) with a programId; the prompt's answer when the
\* workout is in the active program and no session is edited; else saveSession(false)
countTowardProgram(props, workoutId, hasSession, answer) ==
  IF props.programId # NoId THEN TRUE
  ELSE IF workoutInProgram(props, workoutId) /\ ~hasSession THEN answer
  ELSE FALSE

\* saveSession: if (countTowardProgram && workoutId) { pid = programId ||
\* activeProgram?.id; if (pid) incrementProgramWorkoutCount(pid, workoutId) }
programsAfterSave(table, props, workoutId, count) ==
  LET pid == IF props.programId # NoId THEN props.programId
             ELSE IF props.activeProgram # Null THEN props.activeProgram.id
             ELSE NoId
  IN IF count /\ workoutId # NoId /\ pid # NoId
     THEN incrementProgramWorkoutCount(table, pid, workoutId)
     ELSE table

\* updateSession(session.id, buildSessionData(count)): the row keeps its id; a
\* programId of undefined is not sent and the column keeps its value
updatedSessions(ss, sessionId, date, programId) ==
  [i \in 1..Len(ss) |->
     IF ss[i].id = sessionId
     THEN [ss[i] EXCEPT !.date = date,
                        !.programId = IF programId # NoId THEN programId ELSE @]
     ELSE ss[i]]

\* handleSave of the logger the history view opened on a stored session
handleSaveEditedSession(sessionId, date) ==
  /\ \E i \in 1..Len(sessions) : sessions[i].id = sessionId
  /\ LET s == sessions[CHOOSE i \in 1..Len(sessions) : sessions[i].id = sessionId]
         props == historyEditorProps
         count == countTowardProgram(props, s.workoutId, TRUE, TRUE)
     IN /\ sessions' = updatedSessions(sessions, sessionId, date,
                                       IF count THEN props.programId ELSE NoId)
        /\ programs' = programsAfterSave(programs, props, s.workoutId, count)
        /\ lastOp' = [op |-> "saveEditedSession", pid |-> s.programId, id |-> sessionId,
                      n |-> 0]
  /\ UNCHANGED <<callVars, editorVars, editRecordVars, exerciseHistory, activeProgram,
                 programSessionWorkout, selectedWorkouts, mode, adding, exercises,
                 completedExercises, expandedExercises, rotationStart, selections>>

\* handleDelete: deleteSession(session.id), onSave, onClose
handleDelete(sessionId) ==
  /\ \E i \in 1..Len(sessions) : sessions[i].id = sessionId
  /\ LET s == sessions[CHOOSE i \in 1..Len(sessions) : sessions[i].id = sessionId]
     IN lastOp' = [op |-> "deleteSession", pid |-> s.programId, id |-> sessionId, n |-> 0]
  /\ sessions' = withoutExcluded(sessions, sessionId)
  /\ UNCHANGED <<callVars, editorVars, editRecordVars, exerciseHistory, programs,
                 activeProgram, programSessionWorkout, selectedWorkouts, mode, adding,
                 exercises, completedExercises, expandedExercises, rotationStart,
                 selections>>

\* what ties a stored session to a workout and a program: a free session, a
\* session of workout A not counted, a session of A counted toward P1
SessionLinks ==
  {[workoutId |-> NoId, programId |-> NoId],
   [workoutId |-> "A", programId |-> NoId],
   [workoutId |-> "A", programId |-> "P1"]}

\* stored sessions, and the active program P1 with its counters
InitSessionEdit ==
  /\ \E n \in 1..MaxSessions :
       \E d \in [1..n -> 1..MaxDate], l \in [1..n -> SessionLinks] :
         sessions = [i \in 1..n |->
                       [id |-> SessionIdOrder[i], name |-> SessionIdOrder[i],
                        date |-> d[i], exercises |-> <<sessionExercise("e1", 1)>>,
                        workoutId |-> l[i].workoutId, programId |-> l[i].programId]]
  /\ \E done \in 0..MaxCount :
       programs = ("P1" :> programRow(TRUE, FALSE,
                            <<workoutEntry("A", 0, MaxTarget, done),
                              workoutEntry("B", 1, MaxTarget, 0)>>,
                            IF done > 0 THEN "A" ELSE NoId))
  /\ activeProgram = loadedProgram(programs, "P1")
  /\ exerciseHistory = Null
  /\ InitManager /\ InitDevices /\ InitSessionEmpty /\ InitEditorClosed
  /\ InitNoEditRecord /\ InitNoCall
  /\ programSessionWorkout = NoId
  /\ selections = <<>>
  /\ rotationStart = Null
  /\ lastOp = NoOp

NextSessionEdit ==
  \/ \E x \in SessionIds, date \in 1..MaxDate : handleSaveEditedSession(x, date)
  \/ \E x \in SessionIds : handleDelete(x)

SpecSessionEdit == InitSessionEdit /\ [][NextSessionEdit]_vars

\* ------------------------------------------------------------------ claims
workoutIdsOf(ws) == {ws[i].workoutId : i \in 1..Len(ws)}
belowIndexes(ws) == {i \in 1..Len(ws) : ws[i].completedCount < ws[i].targetCount}
indexOfId(ws, id) == CHOOSE i \in 1..Len(ws) : ws[i].workoutId = id
\* position of entry i in ascending sequenceOrder, from 0
rankOf(ws, i) == Cardinality({j \in 1..Len(ws) : ws[j].sequenceOrder < ws[i].sequenceOrder})
\* steps from the position right after the entry of id `last` to entry i, going
\* up in sequenceOrder and wrapping; from the lowest entry when last is unset
stepsFromLast(ws, last, i) ==
  LET start == IF last = NoId THEN 0 ELSE (rankOf(ws, indexOfId(ws, last)) + 1) % Len(ws)
  IN (rankOf(ws, i) - start + Len(ws)) % Len(ws)

\* C1: for every stored program, getNextProgramWorkout is null exactly when the
\* program has no workouts or every entry has completedCount >= targetCount;
\* otherwise it is an entry of that program with completedCount < targetCount.
C1_NullIffNothingLeft ==
  \A p \in DOMAIN programs :
    LET ws == programs[p].workouts
        r == getNextProgramWorkout(loadedProgram(programs, p))
    IN /\ (r = Null) <=> (\A i \in 1..Len(ws) : ws[i].completedCount >= ws[i].targetCount)
       /\ (r # Null) => /\ \E i \in 1..Len(ws) : ws[i] = r
                        /\ r.completedCount < r.targetCount

C1_Witness ==
  /\ lastOp.op = "increment"
  /\ activeProgram # Null
  /\ Len(activeProgram.workouts) = Cardinality(WorkoutIds)
  /\ getNextProgramWorkout(activeProgram) = Null
  /\ getNextProgramWorkout(loadedProgram(programs, "P0")) # Null

\* C2: when some entry is below its target and the last-completed reference is
\* unset or names an entry, the result is the first entry below its target met
\* going up in sequenceOrder, circularly, from right after the last-completed
\* entry (from the lowest sequenceOrder when unset).
C2_FirstBelowTargetAfterLast ==
  \A p \in DOMAIN programs :
    LET ws == programs[p].workouts
        last == programs[p].lastCompletedWorkoutId
        r == getNextProgramWorkout(loadedProgram(programs, p))
    IN (belowIndexes(ws) # {} /\ (last = NoId \/ last \in workoutIdsOf(ws)))
       => \E i \in belowIndexes(ws) :
            /\ r = ws[i]
            /\ \A j \in belowIndexes(ws) :
                 stepsFromLast(ws, last, i) <= stepsFromLast(ws, last, j)

\* the skip-ahead example: A met, B 0/2, C 0/1, last = A, and B was started
C2_Witness ==
  /\ lastOp = [op |-> "start", pid |-> "P1", id |-> "B", n |-> 0]
  /\ activeProgram.lastCompletedWorkoutId = "A"
  /\ workoutEntry("A", 0, 1, 1) \in {activeProgram.workouts[i] : i \in 1..Len(activeProgram.workouts)}
  /\ workoutEntry("B", 1, 2, 0) \in {activeProgram.workouts[i] : i \in 1..Len(activeProgram.workouts)}
  /\ workoutEntry("C", 2, 1, 0) \in {activeProgram.workouts[i] : i \in 1..Len(activeProgram.workouts)}

\* C4: when the last-completed reference names no entry of the program, the
\* lookup is defined and gives what it gives with the reference unset: null
\* when nothing is below target, else the below-target entry of lowest
\* sequenceOrder.
C4_DanglingLastStartsAtLowest ==
  \A p \in DOMAIN programs :
    LET ws == programs[p].workouts
        last == programs[p].lastCompletedWorkoutId
        prog == loadedProgram(programs, p)
        r == getNextProgramWorkout(prog)
    IN (last # NoId /\ last \notin workoutIdsOf(ws))
       => /\ r = getNextProgramWorkout([prog EXCEPT !.lastCompletedWorkoutId = NoId])
          /\ (belowIndexes(ws) = {}) => (r = Null)
          /\ (belowIndexes(ws) # {}) =>
               \E i \in belowIndexes(ws) :
                 /\ r = ws[i]
                 /\ \A j \in belowIndexes(ws) : ws[i].sequenceOrder <= ws[j].sequenceOrder

\* a program session was started from a program whose last-completed workout
\* an edit had removed, and an entry of lower sequenceOrder is already met
C4_Witness ==
  /\ lastOp.op = "start"
  /\ activeProgram.lastCompletedWorkoutId # NoId
  /\ activeProgram.lastCompletedWorkoutId \notin workoutIdsOf(activeProgram.workouts)
  /\ \E i \in 1..Len(activeProgram.workouts) :
       /\ activeProgram.workouts[i].completedCount >= activeProgram.workouts[i].targetCount
       /\ activeProgram.workouts[i].sequenceOrder = 0

\* C5: an incrementProgramWorkoutCount(programId, workoutId) on a program that
\* holds workoutId adds exactly 1 to that entry's completedCount, sets the
\* program's lastCompletedWorkoutId to workoutId, and changes nothing else of
\* the table.
IncrementFrame(pid, wid) ==
  /\ DOMAIN programs' = DOMAIN programs
  /\ \A q \in DOMAIN programs : q # pid => programs'[q] = programs[q]
  /\ programs'[pid].active = programs[pid].active
  /\ programs'[pid].archivedAt = programs[pid].archivedAt
  /\ programs'[pid].lastCompletedWorkoutId = wid
  /\ Len(programs'[pid].workouts) = Len(programs[pid].workouts)
  /\ \A i \in 1..Len(programs[pid].workouts) :
       LET old == programs[pid].workouts[i]
           new == programs'[pid].workouts[i]
       IN /\ new.workoutId = old.workoutId
          /\ new.sequenceOrder = old.sequenceOrder
          /\ new.targetCount = old.targetCount
          /\ new.completedCount = old.completedCount + (IF old.workoutId = wid THEN 1 ELSE 0)

C5_IncrementFrame ==
  [][(/\ lastOp'.op = "increment"
      /\ lastOp'.pid \in DOMAIN programs
      /\ lastOp'.id \in workoutIdsOf(programs[lastOp'.pid].workouts))
     => IncrementFrame(lastOp'.pid, lastOp'.id)]_vars

C5_Witness ==
  /\ lastOp.op = "increment"
  /\ lastOp.n = 1
  /\ Len(programs[lastOp.pid].workouts) = Cardinality(WorkoutIds)
  /\ programs[lastOp.pid].lastCompletedWorkoutId = lastOp.id
  /\ \E i \in 1..Len(programs[lastOp.pid].workouts) :
       /\ programs[lastOp.pid].workouts[i].workoutId = lastOp.id
       /\ programs[lastOp.pid].workouts[i].completedCount > programs[lastOp.pid].workouts[i].targetCount

\* C3: in a rotation of only "take the next workout, record its completion",
\* (a) each selection is followed by the next workout, going up in
\* sequenceOrder and wrapping, that was below its target, (b) between two
\* consecutive selections of one workout every other workout that was below
\* its target at the first of them is selected exactly once, and (c) for a
\* fresh program A, B, C with target 1 and nothing done the selections are
\* A, B, C and then there is no next workout.
selectedId(k) == selections[k].workoutId
\* steps going up in sequenceOrder, wrapping, from the entry after a to b
stepsAfter(ws, a, b) ==
  (rankOf(ws, indexOfId(ws, b)) - rankOf(ws, indexOfId(ws, a)) - 1 + Len(ws)) % Len(ws)

freshABC ==
  [id |-> "P1",
   workouts |-> <<workoutEntry("A", 0, 1, 0), workoutEntry("B", 1, 1, 0),
                  workoutEntry("C", 2, 1, 0)>>,
   lastCompletedWorkoutId |-> NoId]

C3_RoundRobin ==
  LET ws == programs["P1"].workouts
      n == Len(selections)
  IN /\ \A k \in 1..(n - 1) :
          \A u \in workoutIdsOf(ws) :
            stepsAfter(ws, selectedId(k), u) < stepsAfter(ws, selectedId(k), selectedId(k + 1))
              => u \notin selections[k + 1].below
     /\ \A i \in 1..n : \A j \in (i + 1)..n :
          (/\ selectedId(i) = selectedId(j)
           /\ \A k \in (i + 1)..(j - 1) : selectedId(k) # selectedId(i))
          => \A u \in workoutIdsOf(ws) \ {selectedId(i)} :
               Cardinality({k \in (i + 1)..(j - 1) : selectedId(k) = u})
                 = (IF u \in selections[i].below THEN 1 ELSE 0)
     /\ rotationStart = freshABC
          => /\ n <= Len(WorkoutOrder)
             /\ \A k \in 1..n : selectedId(k) = WorkoutOrder[k]
             /\ (programSessionWorkout = NoId /\ n < Len(WorkoutOrder))
                  => getNextProgramWorkout(activeProgram).workoutId = WorkoutOrder[n + 1]
             /\ (programSessionWorkout = NoId /\ n = Len(WorkoutOrder))
                  => getNextProgramWorkout(activeProgram) = Null

\* a workout was selected a second time after the others that were below
\* target, one workout being skipped on the way because its target was met
C3_Witness ==
  \E i \in 1..Len(selections) : \E j \in (i + 2)..Len(selections) :
    /\ selectedId(i) = selectedId(j)
    /\ \A k \in (i + 1)..(j - 1) : selectedId(k) # selectedId(i)
    /\ \E u \in workoutIdsOf(programs["P1"].workouts) : u \notin selections[i].below
    /\ lastOp.op = "increment"

\* C8: a markExerciseComplete(e) step leaves every set of e completed, e in
\* the Completed set and out of the expanded set, and changes nothing else:
\* no other field of e or of its sets, no other exercise, no other member of
\* the two sets.
exerciseAt(exs, exerciseId) == exs[CHOOSE i \in 1..Len(exs) : exs[i].id = exerciseId]

sameButFlags(old, new) ==
  /\ new.id = old.id
  /\ new.supersetGroupId = old.supersetGroupId
  /\ new.supersetOrder = old.supersetOrder
  /\ Len(new.sets) = Len(old.sets)
  /\ \A k \in 1..Len(old.sets) :
       new.sets[k].id = old.sets[k].id /\ new.sets[k].reps = old.sets[k].reps

othersUnchanged(exerciseId) ==
  /\ Len(exercises') = Len(exercises)
  /\ \A i \in 1..Len(exercises) :
       IF exercises[i].id = exerciseId
       THEN sameButFlags(exercises[i], exercises'[i])
       ELSE exercises'[i] = exercises[i]

C8_MarkExerciseComplete ==
  [][lastOp'.op = "markExercise"
     => /\ othersUnchanged(lastOp'.id)
        /\ \A k \in 1..Len(exerciseAt(exercises', lastOp'.id).sets) :
             exerciseAt(exercises', lastOp'.id).sets[k].completed
        /\ lastOp'.id \in completedExercises'
        /\ lastOp'.id \notin expandedExercises'
        /\ completedExercises' \ {lastOp'.id} = completedExercises \ {lastOp'.id}
        /\ expandedExercises' \ {lastOp'.id} = expandedExercises \ {lastOp'.id}]_vars

\* a was marked complete while b stays expanded with a set not completed
C8_Witness ==
  /\ lastOp = [op |-> "markExercise", pid |-> NoId, id |-> "a", n |-> 0]
  /\ Len(exerciseAt(exercises, "a").sets) = MaxSets
  /\ "b" \in expandedExercises /\ "b" \notin completedExercises
  /\ "c" \in completedExercises
  /\ \E k \in 1..Len(exerciseAt(exercises, "b").sets) :
       ~exerciseAt(exercises, "b").sets[k].completed

\* C9: an undoExerciseComplete(e) step takes e out of the Completed set, puts
\* it in the expanded set and leaves the exercise list, so every completed
\* flag, as it was; right after markExerciseComplete(e) it therefore leaves
\* every set of e completed.
C9_UndoKeepsSetFlags ==
  [][lastOp'.op = "undoExercise"
     => /\ exercises' = exercises
        /\ completedExercises' = completedExercises \ {lastOp'.id}
        /\ expandedExercises' = expandedExercises \cup {lastOp'.id}
        /\ (lastOp.op = "markExercise" /\ lastOp.id = lastOp'.id)
             => \A k \in 1..Len(exerciseAt(exercises', lastOp'.id).sets) :
                  exerciseAt(exercises', lastOp'.id).sets[k].completed]_vars

\* a was marked complete and then undone: it is expanded, not Completed, and
\* its sets are still completed
C9_Witness ==
  /\ lastOp = [op |-> "undoExercise", pid |-> NoId, id |-> "a", n |-> 1]
  /\ "a" \notin completedExercises /\ "a" \in expandedExercises
  /\ Len(exerciseAt(exercises, "a").sets) = MaxSets
  /\ \A k \in 1..Len(exerciseAt(exercises, "a").sets) :
       exerciseAt(exercises, "a").sets[k].completed

\* C10: a toggleSetComplete(e, s) step negates the completed flag of set s of
\* exercise e and changes nothing else: no other set, no other exercise,
\* neither the Completed nor the expanded set; toggling the same set again
\* gives back the exercise list.
C10_ToggleSetOnly ==
  [][lastOp'.op = "toggleSet"
     => /\ othersUnchanged(lastOp'.id)
        /\ \A k \in 1..Len(exerciseAt(exercises, lastOp'.id).sets) :
             LET old == exerciseAt(exercises, lastOp'.id).sets[k]
                 new == exerciseAt(exercises', lastOp'.id).sets[k]
             IN new.completed = (IF old.id = lastOp'.n THEN ~old.completed ELSE old.completed)
        /\ completedExercises' = completedExercises
        /\ expandedExercises' = expandedExercises
        /\ withSetToggled(exercises', lastOp'.id, lastOp'.n) = exercises]_vars

\* a set of the Completed exercise a was toggled back to not completed, its
\* other set staying completed and a staying in the Completed set
C10_Witness ==
  /\ lastOp = [op |-> "toggleSet", pid |-> NoId, id |-> "a", n |-> 1]
  /\ "a" \in completedExercises
  /\ Len(exerciseAt(exercises, "a").sets) = MaxSets
  /\ \A k \in 1..Len(exerciseAt(exercises, "a").sets) :
       exerciseAt(exercises, "a").sets[k].completed = (k # 1)

\* ---------------------------------------------------------------- supersets
memberIds(exs, groupId) ==
  {exs[i].id : i \in {j \in 1..Len(exs) : exs[j].supersetGroupId = groupId}}

allSetsCompleted(ex) == \A k \in 1..Len(ex.sets) : ex.sets[k].completed

\* C11: a markSupersetComplete(g) step leaves every set of every exercise
\* carrying g completed, every such exercise in the Completed set and out of
\* the expanded set, isSupersetComplete(g) true, and every exercise outside
\* the cluster (its sets and its membership of both sets) as it was.
C11_MarkSupersetAtomic ==
  [][lastOp'.op = "markSuperset"
     => LET g == lastOp'.id
            members == memberIds(exercises, g)
        IN /\ Len(exercises') = Len(exercises)
           /\ \A i \in 1..Len(exercises) :
                IF exercises[i].id \in members
                THEN sameButFlags(exercises[i], exercises'[i])
                     /\ allSetsCompleted(exercises'[i])
                ELSE exercises'[i] = exercises[i]
           /\ members \subseteq completedExercises'
           /\ members \cap expandedExercises' = {}
           /\ completedExercises' \ members = completedExercises \ members
           /\ expandedExercises' \ members = expandedExercises \ members
           /\ isSupersetComplete(exercises', completedExercises', g)]_vars

\* the superset {b, c} was marked complete while neither member was Completed
\* before and a stays as it was
C11_Witness ==
  /\ lastOp = [op |-> "markSuperset", pid |-> NoId, id |-> "g1", n |-> 2]
  /\ completedExercises = {"b", "c"}
  /\ expandedExercises = {"a"}
  /\ Len(exerciseAt(exercises, "b").sets) >= 1
  /\ Len(exerciseAt(exercises, "c").sets) >= 1
  /\ allSetsCompleted(exerciseAt(exercises, "b"))
  /\ allSetsCompleted(exerciseAt(exercises, "c"))
  /\ Len(exerciseAt(exercises, "a").sets) >= 1
  /\ ~allSetsCompleted(exerciseAt(exercises, "a"))

\* C12: an undoSupersetComplete(g) step takes every member of g out of the
\* Completed set and puts every member in the expanded set, leaves the
\* exercise list (all set flags) and the membership of non-members as they
\* were, and leaves isSupersetComplete(g) false when g has a member.
C12_UndoSupersetAllMembers ==
  [][lastOp'.op = "undoSuperset"
     => LET g == lastOp'.id
            members == memberIds(exercises, g)
        IN /\ exercises' = exercises
           /\ completedExercises' = completedExercises \ members
           /\ expandedExercises' = expandedExercises \cup members
           /\ (members # {} => ~isSupersetComplete(exercises', completedExercises', g))]_vars

\* the completed superset {b, c} was undone: both members are expanded and
\* not Completed, their sets are still completed, and a is still Completed
C12_Witness ==
  /\ lastOp = [op |-> "undoSuperset", pid |-> NoId, id |-> "g1", n |-> 2]
  /\ completedExercises = {"a"}
  /\ {"b", "c"} \subseteq expandedExercises
  /\ "a" \notin expandedExercises
  /\ Len(exerciseAt(exercises, "b").sets) >= 1
  /\ allSetsCompleted(exerciseAt(exercises, "b"))
  /\ allSetsCompleted(exerciseAt(exercises, "c"))

\* C13: in every state isSupersetComplete(g) holds exactly when every
\* exercise carrying g is in the Completed set; so a markExerciseComplete
\* step after which all members are Completed makes it true, and an
\* undoExerciseComplete step on a member makes it false.
derivedFromMembers ==
  \A g \in GroupIds :
    isSupersetComplete(exercises, completedExercises, g)
      <=> memberIds(exercises, g) \subseteq completedExercises

C13_SupersetCompleteDerived ==
  /\ []derivedFromMembers
  /\ [][\A g \in GroupIds :
          /\ (lastOp'.op = "markExercise" /\ lastOp'.id \in memberIds(exercises, g)
              /\ memberIds(exercises, g) \ {lastOp'.id} \subseteq completedExercises)
               => isSupersetComplete(exercises', completedExercises', g)
          /\ (lastOp'.op = "undoExercise" /\ lastOp'.id \in memberIds(exercises, g))
               => ~isSupersetComplete(exercises', completedExercises', g)]_vars

\* c was marked complete on its own after b, which makes the superset
\* complete while b still has a set that is not completed
C13_Witness ==
  /\ lastOp = [op |-> "markExercise", pid |-> NoId, id |-> "c", n |-> 0]
  /\ memberIds(exercises, "g1") = {"b", "c"}
  /\ isSupersetComplete(exercises, completedExercises, "g1")
  /\ ~allSetsCompleted(exerciseAt(exercises, "b"))
  /\ "a" \notin completedExercises

\* C14: a markSupersetComplete or undoSupersetComplete step for a group with
\* fewer than 2 members changes neither the exercise list nor the Completed
\* set nor the expanded set.
C14_SmallGroupNoOp ==
  [][(lastOp'.op \in {"markSuperset", "undoSuperset"} /\ lastOp'.n < 2)
     => /\ exercises' = exercises
        /\ completedExercises' = completedExercises
        /\ expandedExercises' = expandedExercises]_vars

\* ------------------------------------------------------------ WorkoutEditor
groupIdsIn(exs) == {exs[i].supersetGroupId : i \in 1..Len(exs)} \ {NoId}

\* C15: every supersetGroupId present in the exercise list of the workout
\* form, and in the exercise list of the session, is carried by at least 2
\* exercises.
C15_ClustersHaveTwoMembers ==
  /\ \A g \in groupIdsIn(workoutExercises) :
       Cardinality(memberIds(workoutExercises, g)) >= 2
  /\ \A g \in groupIdsIn(exercises) :
       Cardinality(memberIds(exercises, g)) >= 2

\* C16: an Ungroup step on the cluster g leaves no exercise carrying g, clears
\* supersetOrder on the former members, and leaves every exercise outside the
\* cluster as it was.
C16_UngroupClearsEveryMember ==
  [][lastOp'.op = "ungroup"
     => /\ memberIds(workoutExercises', lastOp'.id) = {}
        /\ Len(workoutExercises') = Len(workoutExercises)
        /\ \A i \in 1..Len(workoutExercises) :
             IF workoutExercises[i].supersetGroupId = lastOp'.id
             THEN workoutExercises'[i] =
                    workoutExercise(workoutExercises[i].id, NoId, NoOrder)
             ELSE workoutExercises'[i] = workoutExercises[i]]_vars

\* C17: a createSuperset step with fewer than 2 selected exercises leaves the
\* exercise list as it was; with k >= 2 selected, exactly the selected
\* exercises carry the new group id afterwards, no exercise carried it before,
\* their supersetOrder values are 0..k-1 in list order, the unselected
\* exercises are unchanged and the selection is empty.
C17_CreateSuperset ==
  [][lastOp'.op = "createSuperset"
     => IF Cardinality(selectedForSuperset) < 2
        THEN workoutExercises' = workoutExercises
        ELSE LET g == lastOp'.id
                 k == Cardinality(selectedForSuperset)
                 chosen == {i \in 1..Len(workoutExercises) :
                              workoutExercises[i].id \in selectedForSuperset}
             IN /\ g # NoId
                /\ memberIds(workoutExercises, g) = {}
                /\ Cardinality(chosen) = k
                /\ memberIds(workoutExercises', g) = selectedForSuperset
                /\ Len(workoutExercises') = Len(workoutExercises)
                /\ \A i \in 1..Len(workoutExercises) :
                     IF i \in chosen
                     THEN /\ workoutExercises'[i].id = workoutExercises[i].id
                          /\ workoutExercises'[i].supersetOrder =
                               Cardinality({j \in chosen : j < i})
                     ELSE workoutExercises'[i] = workoutExercises[i]
                /\ {workoutExercises'[i].supersetOrder : i \in chosen} = 0..(k - 1)
                /\ selectedForSuperset' = {}]_vars

\* a second superset {w, y, z} was created around the unselected x while the
\* first superset was ungrouped down to x
C17_Witness ==
  /\ lastOp.op = "createSuperset" /\ lastOp.n = 3
  /\ Len(workoutExercises) = 4
  /\ workoutExercises[1] = workoutExercise("w", lastOp.id, 0)
  /\ workoutExercises[2].id = "x" /\ workoutExercises[2].supersetGroupId \notin {NoId, lastOp.id}
  /\ workoutExercises[3] = workoutExercise("y", lastOp.id, 1)
  /\ workoutExercises[4] = workoutExercise("z", lastOp.id, 2)
  /\ selectedForSuperset = {}

\* createSuperset was called with one exercise selected and changed nothing
C17_WitnessRejected ==
  /\ lastOp.op = "createSuperset" /\ lastOp.n = 1
  /\ Cardinality(selectedForSuperset) = 1
  /\ groupIdsIn(workoutExercises) = {}

\* C18: the display units of getGroupedExercises hold every exercise of the
\* list exactly once; an exercise without group id is a unit of its own; each
\* group id has exactly one cluster, holding all exercises with that id
\* sorted by supersetOrder (missing counts as 0), equal orders in list order;
\* units are placed by the list position of their first exercise.
positionOf(exs, id) == CHOOSE i \in 1..Len(exs) : exs[i].id = id

firstPosition(exs, unit) ==
  CHOOSE p \in {positionOf(exs, unit.exercises[k].id) : k \in 1..Len(unit.exercises)} :
    \A k \in 1..Len(unit.exercises) : p <= positionOf(exs, unit.exercises[k].id)

C18_GroupedUnits ==
  LET exs == workoutExercises
      units == groupedExercises
      slots == {<<u, k>> : u \in 1..Len(units), k \in 1..MaxExercises}
      filled == {s \in slots : s[2] <= Len(units[s[1]].exercises)}
  IN /\ units = getGroupedExercises(exs)
     /\ \A u \in 1..Len(units) : Len(units[u].exercises) >= 1
     /\ \A i \in 1..Len(exs) :
          Cardinality({s \in filled : units[s[1]].exercises[s[2]] = exs[i]}) = 1
     /\ Cardinality(filled) = Len(exs)
     /\ \A u \in 1..Len(units) :
          IF units[u].type = "exercise"
          THEN /\ Len(units[u].exercises) = 1
               /\ units[u].exercises[1].supersetGroupId = NoId
               /\ units[u].groupId = NoId
          ELSE /\ units[u].type = "superset"
               /\ units[u].groupId # NoId
               /\ idsOf(units[u].exercises) = memberIds(exs, units[u].groupId)
               /\ \A v \in 1..Len(units) : units[v].groupId = units[u].groupId => v = u
               /\ \A j, k \in 1..Len(units[u].exercises) :
                    j < k =>
                      \/ orderOrZero(units[u].exercises[j]) < orderOrZero(units[u].exercises[k])
                      \/ /\ orderOrZero(units[u].exercises[j])
                              = orderOrZero(units[u].exercises[k])
                         /\ positionOf(exs, units[u].exercises[j].id)
                              < positionOf(exs, units[u].exercises[k].id)
     /\ \A u, v \in 1..Len(units) :
          u < v => firstPosition(exs, units[u]) < firstPosition(exs, units[v])

\* after z was added, [w, x(p1, 0), y(p1, 1), z] is shown as
\* [w, cluster{x, y}, z]
C18_Witness ==
  /\ lastOp.op = "addExercise"
  /\ workoutExercises = <<workoutExercise("w", NoId, NoOrder), workoutExercise("x", "p1", 0),
                          workoutExercise("y", "p1", 1), workoutExercise("z", NoId, NoOrder)>>
  /\ groupedExercises =
       <<[type |-> "exercise", groupId |-> NoId,
          exercises |-> <<workoutExercise("w", NoId, NoOrder)>>],
         [type |-> "superset", groupId |-> "p1",
          exercises |-> <<workoutExercise("x", "p1", 0), workoutExercise("y", "p1", 1)>>],
         [type |-> "exercise", groupId |-> NoId,
          exercises |-> <<workoutExercise("z", NoId, NoOrder)>>]>>

\* interleaved clusters with a missing order tied with 0 and a member out of
\* order: [w(p1, 1), x(p2), y(p1), z(p1, 0)] is shown as
\* [cluster p1 {y, z, w}, cluster p2 {x}]
C18_WitnessTies ==
  /\ workoutExercises = <<workoutExercise("w", "p1", 1), workoutExercise("x", "p2", NoOrder),
                          workoutExercise("y", "p1", NoOrder), workoutExercise("z", "p1", 0)>>
  /\ Len(groupedExercises) = 2
  /\ groupedExercises[1].exercises =
       <<workoutExercise("y", "p1", NoOrder), workoutExercise("z", "p1", 0),
         workoutExercise("w", "p1", 1)>>

\* --------------------------------------------------- getLastExerciseHistory
candidateSessions(ss, exerciseId, excludeSessionId) ==
  {i \in 1..Len(ss) : ss[i].id # excludeSessionId /\ containsExercise(ss[i], exerciseId)}

laterDate(a, b) == ~isNaNTime(a.date) /\ ~isNaNTime(b.date) /\ a.date > b.date

\* C19: the result of getLastExerciseHistory(e, x) is null exactly when no
\* session other than x holds e; otherwise it is the projection of e from a
\* session other than x that holds e, no other such session has a later
\* date, and none with the same date comes before it in the loaded
\* collection.  Only dates that parse are compared.
C19_LastExerciseHistory ==
  lastOp.op = "history"
    => LET cands == candidateSessions(sessions, lastOp.id, lastOp.pid)
       IN /\ (exerciseHistory = Null) <=> (cands = {})
          /\ exerciseHistory # Null
               => \E r \in cands :
                    /\ exerciseHistory = historyOf(sessions[r], lastOp.id)
                    /\ \A t \in cands :
                         /\ ~laterDate(sessions[t], sessions[r])
                         /\ (sessions[t].date = sessions[r].date
                             /\ ~isNaNTime(sessions[r].date)) => r <= t

\* ----------------------------------------------------------- ProgramManager
entriesOf(ws, workoutId) == {i \in 1..Len(ws) : ws[i].workoutId = workoutId}

isDense(ws) == \A i \in 1..Len(ws) : ws[i].sequenceOrder = i - 1

noRepeatedWorkout(ws) ==
  \A i, j \in 1..Len(ws) : ws[i].workoutId = ws[j].workoutId => i = j

\* C21: while the program editor is open on a list that started dense, the
\* entry at list position i (0-based) has sequenceOrder i, so the values are
\* exactly 0..N-1, and no workoutId appears twice
C21_DenseAndUnique ==
  mode = "edit" => isDense(selectedWorkouts) /\ noRepeatedWorkout(selectedWorkouts)

\* a full list that has seen a removal, an addition and a move
C21_Witness ==
  /\ mode = "edit"
  /\ lastOp.op = "moveWorkout"
  /\ removedInEdit # {}
  /\ Len(selectedWorkouts) = Cardinality(WorkoutIds)
  /\ selectedWorkouts[1].workoutId = "C"
  /\ selectedWorkouts[2].workoutId = "A"

\* ------------------------------------------------------------------- C22
targetsAtLeastOne(ws) == \A i \in 1..Len(ws) : ws[i].targetCount >= 1

\* C22: every entry the editor holds or has saved has targetCount >= 1, and
\* handleUpdateTarget stores max(1, requested) on the named entry and leaves
\* every other entry as it was
C22_TargetAtLeastOne ==
  /\ [](/\ targetsAtLeastOne(selectedWorkouts)
        /\ \A p \in DOMAIN programs : targetsAtLeastOne(programs[p].workouts))
  /\ [][lastOp'.op = "updateTarget" =>
          /\ Len(selectedWorkouts') = Len(selectedWorkouts)
          /\ \A i \in 1..Len(selectedWorkouts) :
               IF selectedWorkouts[i].workoutId = lastOp'.id
               THEN selectedWorkouts'[i] =
                      [selectedWorkouts[i] EXCEPT
                         !.targetCount = IF lastOp'.n >= 1 THEN lastOp'.n ELSE 1]
               ELSE selectedWorkouts'[i] = selectedWorkouts[i]]_vars

\* a negative request on one entry of a longer list, stored as 1
C22_Witness ==
  /\ mode = "edit"
  /\ lastOp.op = "updateTarget"
  /\ lastOp.n < 0
  /\ Len(selectedWorkouts) >= 2
  /\ \E i \in 1..Len(selectedWorkouts) :
       selectedWorkouts[i].workoutId = lastOp.id /\ selectedWorkouts[i].targetCount = 1


\* ------------------------------------------------------------------- C23
RECURSIVE remainingFrom(_, _)
remainingFrom(ws, i) ==
  IF i > Len(ws) THEN 0
  ELSE (ws[i].targetCount - ws[i].completedCount) + remainingFrom(ws, i + 1)

\* completions still owed by a workout list: sum of targetCount - completedCount
remaining(ws) == remainingFrom(ws, 1)

rotationOver ==
  /\ programSessionWorkout = NoId
  /\ getNextProgramWorkout(activeProgram) = Null

\* C23: from a program with unique sequenceOrders, targets >= 1 and no entry
\* above its target, repeating "take the next workout, record its completion"
\* reaches the state where getNextProgramWorkout returns null; that state comes
\* after exactly sum(targetCount - completedCount) completions and has every
\* entry at completedCount = targetCount
C23_RotationCompletes ==
  /\ <>[]rotationOver
  /\ [](rotationOver =>
          /\ Len(selections) = remaining(rotationStart.workouts)
          /\ \A i \in 1..Len(activeProgram.workouts) :
               activeProgram.workouts[i].completedCount =
                 activeProgram.workouts[i].targetCount)
  /\ [](Len(selections) <= remaining(rotationStart.workouts))

\* a rotation over three workouts that took several completions to finish
C23_Witness ==
  /\ rotationOver
  /\ lastOp.op = "increment"
  /\ Len(activeProgram.workouts) = Cardinality(WorkoutIds)
  /\ Len(selections) >= 4
  /\ Len(selections) = remaining(rotationStart.workouts)


\* ------------------------------------------------------------------- C24
\* C24: for a program whose counters start at 0 with targets >= 1 and that is
\* not edited, after any sequence of session saves that count toward the
\* program every entry satisfies completedCount <= targetCount
C24_CountWithinTarget ==
  \A p \in DOMAIN programs :
    \A i \in 1..Len(programs[p].workouts) :
      programs[p].workouts[i].completedCount <= programs[p].workouts[i].targetCount


\* ------------------------------------------------------------------- C25
\* C25: in every reachable state of an active session, an exercise that is in
\* the Completed set has every one of its sets with completed = true
C25_CompletedHasAllSetsDone ==
  \A i \in 1..Len(exercises) :
    exercises[i].id \in completedExercises => allSetsCompleted(exercises[i])


\* ------------------------------------------------------------------- C26
\* C26: in every reachable state of an active session, including after
\* addExercise and removeExercise, the Completed set contains only ids of
\* exercises in the session's list, so the number of completed exercises never
\* exceeds the number of exercises and the progress percentage is within 0..100
C26_CompletedAreListed ==
  /\ completedExercises \subseteq idsOf(exercises)
  /\ Cardinality(completedExercises) <= Len(exercises)
  /\ progressPercent \in 0..100


\* ------------------------------------------------------------------- C27
RECURSIVE completedFrom(_, _)
completedFrom(ws, i) ==
  IF i > Len(ws) THEN 0 ELSE ws[i].completedCount + completedFrom(ws, i + 1)

\* sum of completedCount over a workout list
completedSum(ws) == completedFrom(ws, 1)

\* both devices have finished a call on P1 for a workout of the program
bothCallsWritten ==
  \A d \in Devices :
    /\ incrementing[d].pc = "written"
    /\ incrementing[d].pid = "P1"
    /\ \E i \in 1..Len(rotationStart.workouts) :
         rotationStart.workouts[i].workoutId = incrementing[d].id

\* C27: when two incrementProgramWorkoutCount calls for the same program run
\* concurrently, interleaved at their read and their write, no increment is
\* lost: the sum of completedCount over the entries grows by exactly 2
C27_NoLostIncrement ==
  bothCallsWritten =>
    completedSum(programs["P1"].workouts) = completedSum(rotationStart.workouts) + 2

\* ------------------------------------------------------------------- C28
noEntryFor(ws, workoutId) == \A i \in 1..Len(ws) : ws[i].workoutId # workoutId

\* the entry below its target with the lowest sequenceOrder, or Null
lowestBelowTarget(ws) ==
  LET below == {i \in 1..Len(ws) : ws[i].completedCount < ws[i].targetCount}
  IN IF below = {} THEN Null
     ELSE ws[CHOOSE i \in below :
               \A j \in below : ws[i].sequenceOrder <= ws[j].sequenceOrder]

\* C28: a call whose workoutId matches no entry of an existing program leaves
\* every completedCount as it was and still sets lastCompletedWorkoutId to that
\* workoutId, and getNextProgramWorkout then scans from the lowest
\* sequenceOrder; a call whose programId is not stored writes nothing
C28_UnmatchedIds ==
  /\ [][\A d \in Devices :
          (/\ incrementing[d].pc = "read"
           /\ incrementing'[d].pc = "written"
           /\ incrementing[d].pid \in DOMAIN programs
           /\ incrementing[d].data = programs[incrementing[d].pid].workouts
           /\ noEntryFor(incrementing[d].data, incrementing[d].id))
          => LET p == incrementing[d].pid
             IN /\ programs'[p].workouts = programs[p].workouts
                /\ programs'[p].lastCompletedWorkoutId = incrementing[d].id
                /\ \A q \in DOMAIN programs \ {p} : programs'[q] = programs[q]
                /\ getNextProgramWorkout(loadedProgram(programs', p)) =
                     lowestBelowTarget(programs'[p].workouts)]_vars
  /\ [][\A d \in Devices :
          (/\ incrementing[d].pc = "idle"
           /\ incrementing'[d].pc # "idle"
           /\ incrementing'[d].pid \notin DOMAIN programs)
          => /\ programs' = programs
             /\ incrementing'[d].pc = "returned"]_vars
  /\ [][\A d \in Devices :
          incrementing[d].pc = "returned" => incrementing'[d] = incrementing[d]]_vars

\* one call returned on a missing program; the other wrote a workout id that
\* the program does not have, its first entry in sequence being at its target
C28_Witness ==
  /\ incrementing["D1"].pc = "returned"
  /\ incrementing["D2"].pc = "written"
  /\ lastOp.op = "incrementWrite"
  /\ Len(programs["P1"].workouts) = 2
  /\ noEntryFor(programs["P1"].workouts, programs["P1"].lastCompletedWorkoutId)
  /\ programs["P1"].lastCompletedWorkoutId = incrementing["D2"].id
  /\ getNextProgramWorkout(loadedProgram(programs, "P1")) # Null
  /\ programs["P1"].workouts[1].sequenceOrder > programs["P1"].workouts[2].sequenceOrder


\* ------------------------------------------------------------------- C29
\* C29: when addProgram's deactivation write succeeds and its insert fails, the
\* owner has no active program: the programs that were active stay archived
\* (active = false), none is reactivated and the new program is not stored; and
\* the insert is attempted whatever the outcome of the deactivation write
C29_FailedInsert ==
  /\ [][\A d \in Devices :
          (/\ adding[d].pc = "deactivated"
           /\ adding[d].deactivated
           /\ lastOp'.op = "insert" /\ lastOp'.id = d /\ lastOp'.n = 0)
          => /\ activeIds(programs') = {}
             /\ \A o \in adding[d].old :
                  ~programs'[o].active /\ programs'[o].archivedAt
             /\ adding[d].id \notin DOMAIN programs'
             /\ programs' = programs]_vars
  /\ [][\A d \in Devices :
          (lastOp'.op = "deactivate" /\ lastOp'.id = d)
          => adding'[d].pc = "deactivated"]_vars
  /\ [](\A d \in Devices :
          adding[d].pc = "deactivated" => ENABLED addProgramInsert(d, TRUE))

\* the insert failed after a deactivation that archived two active programs,
\* the second of them inserted after a deactivation that had failed
C29_Witness ==
  /\ lastOp.op = "insert" /\ lastOp.n = 0
  /\ adding["D1"].pc = "idle"
  /\ adding["D1"].deactivated
  /\ Cardinality(adding["D1"].old) = 2
  /\ activeIds(programs) = {}
  /\ \A o \in adding["D1"].old : programs[o].archivedAt


\* ------------------------------------------------------------------- C30
\* C30: saving an edit of an existing session and deleting a session never
\* change any program: the edit is saved without counting toward a program and
\* the delete only removes the session, so completedCount and
\* lastCompletedWorkoutId of every program keep their values (a deleted counted
\* session is not subtracted)
C30_SessionEditKeepsPrograms ==
  [][lastOp'.op \in {"saveEditedSession", "deleteSession"} =>
       /\ programs' = programs
       /\ lastOp'.op = "deleteSession" =>
            sessions' = SelectSeq(sessions, LAMBDA s : s.id # lastOp'.id)
       /\ lastOp'.op = "saveEditedSession" =>
            /\ Len(sessions') = Len(sessions)
            /\ \A i \in 1..Len(sessions) :
                 sessions'[i].programId = sessions[i].programId]_vars

\* every session is gone, the last one deleted was counted toward P1, and P1
\* still has its completions
C30_Witness ==
  /\ lastOp.op = "deleteSession"
  /\ lastOp.pid = "P1"
  /\ sessions = <<>>
  /\ programs["P1"].workouts[1].completedCount = MaxCount
  /\ programs["P1"].lastCompletedWorkoutId = "A"

====
